---- MODULE Spec2Model ----
(***************************************************************************)
(* Position engine of futures_engine: Position (position.go), the symbol   *)
(* buckets AtomicPositions / SymbolPositions and the PositionManager       *)
(* (manager.go).                                                           *)
(*                                                                         *)
(* decimal.Decimal values are carried as exact reduced fractions <<n, d>>. *)
(* shopspring's Div rounds at 16 fractional digits; that rounding is below *)
(* the resolution of the model and is not represented.                     *)
(***************************************************************************)
EXTENDS Integers, Sequences, FiniteSets, TLC

VARIABLES heap, userPositions, mode, container, pos, posTrades, posReturned,
          account, accounts, msMu, scan, th, locks

vars == <<heap, userPositions, mode, container, pos, posTrades, posReturned,
          account, accounts, msMu, scan, th, locks>>
mgrVars == <<heap, userPositions, mode, container>>
posVars == <<pos, posTrades, posReturned>>
marginVars == <<account, accounts, msMu>>
concVars == <<scan, th, locks>>

\* ------------------------------------------------------------------ bounds

\* number of Position objects the manager may allocate in one run
MaxPositions == 2
\* largest size OpenPosition may grow a position to
MaxTotalSize == 2
\* number of Add / Reduce / Close calls applied to the stand-alone position
MaxTrades == 2
\* bits of a float's mantissa.  float64 carries 53; the model carries as few
\* as make the sizes it reaches pass the last exactly representable integer
FloatMantissaBits == 2
MaxBalance == 2
\* number of goroutines calling into the engine at the same time
MaxGoroutines == 2

UserIDs == {"alice", "BTC"}
RegisteredSymbols == {"BTC", "ETH"}
AllSymbols == RegisteredSymbols \cup {"XRP"}
TradePrices == {2}
MarkPrices == {1, 3}
TradeSizes == {1, 2}
Leverages == {2}
\* prices and marks of the stand-alone position
PosPrices == {1, 2, 3}

\* ------------------------------------------------------------------ decimals

Abs(x) == IF x < 0 THEN -x ELSE x

RECURSIVE GCD(_, _)
GCD(a, b) == IF b = 0 THEN a ELSE GCD(b, a % b)

\* the reduced fraction n/d, d # 0
Rat(n, d) ==
    LET g == GCD(Abs(n), Abs(d))
        s == IF d < 0 THEN -1 ELSE 1
    IN  <<(s * n) \div g, (s * d) \div g>>

Zero == <<0, 1>>
NewFromInt(i) == <<i, 1>>
DAdd(a, b) == Rat(a[1] * b[2] + b[1] * a[2], a[2] * b[2])
DSub(a, b) == Rat(a[1] * b[2] - b[1] * a[2], a[2] * b[2])
DMul(a, b) == Rat(a[1] * b[1], a[2] * b[2])
\* b # 0: decimal.Div panics on a zero divisor; the callers below take their
\* "panic" branch instead.  decimal.Div rounds the quotient to 16 decimal
\* places; the model keeps the quotient exact.
DDiv(a, b) == Rat(a[1] * b[2], a[2] * b[1])
DIsZero(a) == a[1] = 0
DGreaterThan(a, b) == a[1] * b[2] > b[1] * a[2]
DLessThanOrEqual(a, b) == a[1] * b[2] <= b[1] * a[2]

\* float64 <-> decimal.  A float is carried as the fraction it equals.
\* NewFromFloat yields the shortest decimal that reads back as f: f itself.
NewFromFloat(f) == f

RECURSIVE Pow2(_)
Pow2(k) == IF k = 0 THEN 1 ELSE 2 * Pow2(k - 1)

\* the integer nearest to n/d (n >= 0, d > 0), ties to the even one
RoundHalfEven(n, d) ==
    LET f == n \div d
        r == n % d
    IN  IF 2 * r < d THEN f
        ELSE IF 2 * r > d THEN f + 1
        ELSE IF f % 2 = 0 THEN f ELSE f + 1

\* x > 0 rounded to a mantissa of FloatMantissaBits bits: the binary exponent
\* is the one that brings x into [2^(bits-1), 2^bits), where it is rounded to
\* an integer
RoundToFloat(x) ==
    LET n == x[1]
        d == x[2]
        lo == Pow2(FloatMantissaBits - 1)
        hi == Pow2(FloatMantissaBits)
    IN  IF n >= lo * d
        THEN LET k == CHOOSE e \in 0..30 : n < hi * Pow2(e) * d /\ n >= lo * Pow2(e) * d
             IN  NewFromInt(RoundHalfEven(n, Pow2(k) * d) * Pow2(k))
        ELSE LET k == CHOOSE e \in 1..30 : Pow2(e) * n < hi * d /\ Pow2(e) * n >= lo * d
             IN  Rat(RoundHalfEven(Pow2(k) * n, d), Pow2(k))

\* the float64 nearest to d
InexactFloat64(d) ==
    IF DIsZero(d) THEN Zero
    ELSE IF d[1] < 0 THEN DSub(Zero, RoundToFloat(DSub(Zero, d)))
    ELSE RoundToFloat(d)

\* float64 arithmetic: the exact result, rounded
FloatAdd(a, b) == InexactFloat64(DAdd(a, b))
FloatSub(a, b) == InexactFloat64(DSub(a, b))
FloatMul(a, b) == InexactFloat64(DMul(a, b))
FloatDiv(a, b) == InexactFloat64(DDiv(a, b))

\* ------------------------------------------------------------------ types.go

LONG == 1
SHORT == -1
PositionSides == {LONG, SHORT}
SideString(ps) == IF ps = LONG THEN "long" ELSE IF ps = SHORT THEN "short" ELSE "unknown"

OneWayMode == "one-way"
HedgeMode == "hedge"
PositionModes == {OneWayMode, HedgeMode}

PositionNormal == "normal"
PositionLiquidating == "liquidating"
PositionClosed == "closed"

CROSS == "CROSS"
ISOLATED == "ISOLATED"

\* math.Inf(1) of the last tier: above every notional of the model
Inf == 2147483647

\* MinValue, MaxValue, MaintenanceRate, MaxLeverage
DefaultMarginTiers == <<
    [MinValue |-> 0,        MaxValue |-> 50000,    MaintenanceRate |-> Rat(4, 1000),   MaxLeverage |-> 125],
    [MinValue |-> 50000,    MaxValue |-> 250000,   MaintenanceRate |-> Rat(5, 1000),   MaxLeverage |-> 100],
    [MinValue |-> 250000,   MaxValue |-> 1000000,  MaintenanceRate |-> Rat(1, 100),    MaxLeverage |-> 50],
    [MinValue |-> 1000000,  MaxValue |-> 5000000,  MaintenanceRate |-> Rat(25, 1000),  MaxLeverage |-> 20],
    [MinValue |-> 5000000,  MaxValue |-> 10000000, MaintenanceRate |-> Rat(5, 100),    MaxLeverage |-> 10],
    [MinValue |-> 10000000, MaxValue |-> 20000000, MaintenanceRate |-> Rat(1, 10),     MaxLeverage |-> 5],
    [MinValue |-> 20000000, MaxValue |-> 50000000, MaintenanceRate |-> Rat(125, 1000), MaxLeverage |-> 4],
    [MinValue |-> 50000000, MaxValue |-> Inf,      MaintenanceRate |-> Rat(15, 100),   MaxLeverage |-> 3] >>

\* ------------------------------------------------------------------ position.go

\* The ids minted by GeneratePositionID are fresh uuids; the model numbers them.
NewPosition(id, userID, symbol, marginMode) ==
    [ID |-> id, UserID |-> userID, Symbol |-> symbol, Side |-> 0,
     Status |-> PositionNormal, MarginMode |-> marginMode,
     Size |-> Zero, EntryPrice |-> Zero, MarkPrice |-> Zero, LiquidationPrice |-> Zero,
     InitialMargin |-> Zero, MaintenanceMargin |-> Zero, Leverage |-> 0,
     RealizedPnL |-> Zero, UnrealizedPnL |-> Zero,
     sizeFloat |-> Zero, entryPriceFloat |-> Zero]

\* first tier with MinValue <= positionValue <= MaxValue, rate 0 when none
RECURSIVE tierRate(_, _)
tierRate(positionValue, i) ==
    IF i > Len(DefaultMarginTiers) THEN Zero
    ELSE LET t == DefaultMarginTiers[i]
         IN  IF /\ ~DGreaterThan(NewFromInt(t.MinValue), positionValue)
                /\ DLessThanOrEqual(positionValue, NewFromInt(t.MaxValue))
             THEN t.MaintenanceRate
             ELSE tierRate(positionValue, i + 1)

\* the tier is looked up with the float64 of the position value
calculateMaintenanceMargin(positionValue) ==
    DMul(positionValue, tierRate(InexactFloat64(positionValue), 1))

\* Each operation returns [p: the position afterwards, err, pnl]. err is
\* "panic" when a Div by zero aborts the method; p then carries the
\* assignments made before the abort (the deferred Unlock releases the mutex).

\* Open as it would be if its guard looked at the status alone
Open_IgnoresSize(p, side, price, size, leverage) ==
    IF p.Status # PositionNormal
    THEN [p |-> p, err |-> "position already exists, can not open again", pnl |-> Zero]
    ELSE LET priceD == NewFromFloat(NewFromInt(price))
             sizeD == NewFromFloat(NewFromInt(size))
             positionValue == DMul(priceD, sizeD)
         IN  [p |-> [p EXCEPT !.Side = side, !.EntryPrice = priceD, !.Size = sizeD,
                              !.Leverage = leverage,
                              !.InitialMargin = DDiv(positionValue, NewFromInt(leverage)),
                              !.MaintenanceMargin = calculateMaintenanceMargin(positionValue),
                              !.entryPriceFloat = NewFromInt(price),
                              !.sizeFloat = NewFromInt(size)],
              err |-> "nil", pnl |-> Zero]

Open(p, side, price, size, leverage) ==
    IF p.Status # PositionNormal \/ ~DIsZero(p.Size)
    THEN [p |-> p, err |-> "position already exists, can not open again", pnl |-> Zero]
    ELSE LET priceD == NewFromFloat(NewFromInt(price))
             sizeD == NewFromFloat(NewFromInt(size))
             positionValue == DMul(priceD, sizeD)
         IN  IF leverage = 0
             THEN [p |-> [p EXCEPT !.Side = side, !.EntryPrice = priceD, !.Size = sizeD,
                                   !.Leverage = leverage],
                   err |-> "panic", pnl |-> Zero]
             ELSE
             [p |-> [p EXCEPT !.Side = side, !.EntryPrice = priceD, !.Size = sizeD,
                              !.Leverage = leverage,
                              !.InitialMargin = DDiv(positionValue, NewFromInt(leverage)),
                              !.MaintenanceMargin = calculateMaintenanceMargin(positionValue),
                              !.entryPriceFloat = NewFromInt(price),
                              !.sizeFloat = NewFromInt(size)],
              err |-> "nil", pnl |-> Zero]

Add(p, price, size) ==
    IF p.Status # PositionNormal
    THEN [p |-> p, err |-> "add position failed, position status is not normal", pnl |-> Zero]
    ELSE LET priceD == NewFromFloat(NewFromInt(price))
             sizeD == NewFromFloat(NewFromInt(size))
             oldValue == DMul(p.EntryPrice, p.Size)
             newValue == DMul(priceD, sizeD)
             totalValue == DAdd(oldValue, newValue)
             totalSize == DAdd(p.Size, sizeD)
             entry == DDiv(totalValue, totalSize)
             positionValue == DMul(entry, totalSize)
         IN  IF DIsZero(totalSize)
             THEN [p |-> p, err |-> "panic", pnl |-> Zero]
             ELSE IF p.Leverage = 0
             THEN [p |-> [p EXCEPT !.EntryPrice = entry, !.Size = totalSize],
                   err |-> "panic", pnl |-> Zero]
             ELSE
             [p |-> [p EXCEPT !.EntryPrice = entry, !.Size = totalSize,
                              !.InitialMargin = DDiv(positionValue, NewFromInt(p.Leverage)),
                              !.MaintenanceMargin = calculateMaintenanceMargin(positionValue),
                              !.entryPriceFloat = InexactFloat64(entry),
                              !.sizeFloat = InexactFloat64(totalSize)],
              err |-> "nil", pnl |-> Zero]

\* size is the float64 argument, already in the model's decimal form
ReduceBy(p, price, size) ==
    LET priceD == NewFromFloat(NewFromInt(price))
        sizeD == NewFromFloat(size)
    IN  IF p.Status # PositionNormal
        THEN [p |-> p, err |-> "reduce position failed, position status is not normal", pnl |-> Zero]
        ELSE IF DGreaterThan(sizeD, p.Size)
        THEN [p |-> p, err |-> "reduce position failed, reduce size exceeds position size", pnl |-> Zero]
        ELSE LET pnl == IF p.Side = LONG
                        THEN DMul(DSub(priceD, p.EntryPrice), sizeD)
                        ELSE DMul(DSub(p.EntryPrice, priceD), sizeD)
                 left == DSub(p.Size, sizeD)
                 positionValue == DMul(p.EntryPrice, left)
                 q == [p EXCEPT !.RealizedPnL = DAdd(p.RealizedPnL, pnl), !.Size = left]
             IN  IF DIsZero(left)
                 THEN [p |-> [q EXCEPT !.Status = PositionClosed, !.InitialMargin = Zero,
                                       !.MaintenanceMargin = Zero,
                                       !.sizeFloat = InexactFloat64(left)],
                       err |-> "nil", pnl |-> pnl]
                 ELSE IF p.Leverage = 0
                 THEN [p |-> q, err |-> "panic", pnl |-> pnl]
                 ELSE [p |-> [q EXCEPT !.sizeFloat = InexactFloat64(left),
                                       !.InitialMargin = DDiv(positionValue, NewFromInt(p.Leverage)),
                                       !.MaintenanceMargin = calculateMaintenanceMargin(positionValue)],
                       err |-> "nil", pnl |-> pnl]

\* Reduce as it would be without the `p.Status = PositionClosed` assignment
Reduce_KeepsStatus(p, price, size) ==
    LET r == ReduceBy(p, price, NewFromInt(size))
    IN  [r EXCEPT !.p.Status = p.Status]

\* Reduce as it would be if it returned the delta without booking it
Reduce_DropsRealized(p, price, size) ==
    LET r == ReduceBy(p, price, NewFromInt(size))
    IN  [r EXCEPT !.p.RealizedPnL = p.RealizedPnL]

\* Reduce as it would be if a partial reduce did not re-derive the initial margin
Reduce_StaleMargin(p, price, size) ==
    LET r == ReduceBy(p, price, NewFromInt(size))
    IN  IF r.err = "nil" /\ r.p.Status = PositionNormal
        THEN [r EXCEPT !.p.InitialMargin = p.InitialMargin]
        ELSE r

\* Reduce as it would be if a full reduce left the margins as they were
Reduce_KeepsMargins(p, price, size) ==
    LET r == ReduceBy(p, price, NewFromInt(size))
    IN  IF r.err = "nil" /\ r.p.Status = PositionClosed
        THEN [r EXCEPT !.p.InitialMargin = p.InitialMargin,
                       !.p.MaintenanceMargin = p.MaintenanceMargin]
        ELSE r

\* Reduce as it would be if it booked the realized PnL before it checked the size
Reduce_BooksBeforeCheck(p, price, size) ==
    LET r == ReduceBy(p, price, NewFromInt(size))
        pnl == IF p.Side = LONG
               THEN DMul(DSub(NewFromInt(price), p.EntryPrice), NewFromInt(size))
               ELSE DMul(DSub(p.EntryPrice, NewFromInt(price)), NewFromInt(size))
    IN  IF p.Status = PositionNormal /\ r.err \notin {"nil", "panic"}
        THEN [r EXCEPT !.p.RealizedPnL = DAdd(p.RealizedPnL, pnl)]
        ELSE r

Reduce(p, price, size) == ReduceBy(p, price, NewFromInt(size))

\* Close as it would be if closing a Closed position were an idempotent success
Close_Idempotent(p, price) ==
    IF p.Status = PositionClosed
    THEN [p |-> p, err |-> "nil", pnl |-> Zero]
    ELSE ReduceBy(p, price, p.sizeFloat)

Close(p, price) == ReduceBy(p, price, p.sizeFloat)

\* UpdateMarkPrice as it would be if it re-derived the maintenance margin from
\* the notional at the mark price
UpdateMarkPrice_RederivesMargin(p, markPrice) ==
    LET markPriceD == NewFromFloat(NewFromInt(markPrice))
    IN  [p EXCEPT !.MarkPrice = markPriceD,
                  !.UnrealizedPnL = IF p.Side = LONG
                                    THEN DMul(DSub(markPriceD, p.EntryPrice), p.Size)
                                    ELSE DMul(DSub(p.EntryPrice, markPriceD), p.Size),
                  !.MaintenanceMargin = calculateMaintenanceMargin(DMul(markPriceD, p.Size))]

UpdateMarkPrice(p, markPrice) ==
    LET markPriceD == NewFromFloat(NewFromInt(markPrice))
    IN  [p EXCEPT !.MarkPrice = markPriceD,
                  !.UnrealizedPnL = IF p.Side = LONG
                                    THEN DMul(DSub(markPriceD, p.EntryPrice), p.Size)
                                    ELSE DMul(DSub(p.EntryPrice, markPriceD), p.Size)]

\* [p: the position afterwards, ret: the price returned]
CalculateLiquidationPrice(p) ==
    IF DIsZero(p.Size) THEN [p |-> p, ret |-> Zero]
    ELSE LET marginBuffer == DSub(p.InitialMargin, p.MaintenanceMargin)
             priceBuffer == DDiv(marginBuffer, p.Size)
             liq == IF p.Side = LONG THEN DSub(p.EntryPrice, priceBuffer)
                    ELSE DAdd(p.EntryPrice, priceBuffer)
         IN  [p |-> [p EXCEPT !.LiquidationPrice = liq], ret |-> liq]

\* GetMarginRatio aborts (panic) in the unimplemented CROSS mode
GetMarginRatioPanics(p) ==
    /\ ~(DIsZero(p.Size) \/ DIsZero(p.MarkPrice))
    /\ ~DIsZero(DMul(p.MarkPrice, p.Size))
    /\ p.MarginMode = CROSS

\* GetMarginRatio as it would be if the equity left the unrealized PnL out
GetMarginRatio_NoPnL(p) ==
    IF DIsZero(p.Size) \/ DIsZero(p.MarkPrice) THEN NewFromInt(100)
    ELSE DMul(DDiv(p.InitialMargin, DMul(p.MarkPrice, p.Size)), NewFromInt(100))

GetMarginRatio(p) ==
    IF DIsZero(p.Size) \/ DIsZero(p.MarkPrice) THEN NewFromInt(100)
    ELSE LET positionValue == DMul(p.MarkPrice, p.Size)
         IN  IF DIsZero(positionValue) THEN NewFromInt(100)
             ELSE DMul(DDiv(DAdd(p.InitialMargin, p.UnrealizedPnL), positionValue),
                       NewFromInt(100))

\* "true", "false", or "panic": the CROSS panic of GetMarginRatio and the
\* division by a zero positionValue both abort the call
IsLiquidatableOutcome(p) ==
    IF p.Status # PositionNormal \/ DIsZero(p.Size) THEN "false"
    ELSE LET positionValue == DMul(p.MarkPrice, p.Size)
         IN  IF GetMarginRatioPanics(p) \/ DIsZero(positionValue) THEN "panic"
             ELSE IF DLessThanOrEqual(GetMarginRatio(p),
                         DMul(DDiv(p.MaintenanceMargin, positionValue), NewFromInt(100)))
                  THEN "true" ELSE "false"

IsLiquidatable(p) == IsLiquidatableOutcome(p) = "true"

\* 10^-sizePrecision with the default sizePrecision of 8; the manager always
\* builds positions with the default precision
ZeroSize(p) == Rat(1, 100000000)

\* ------------------------------------------------------------------ MarginAccount
\* The fields are float64; each method returns [a: the account afterwards, err].

NewMarginAccount(userID) ==
    [UserID |-> userID, Balance |-> Zero, AvailableBalance |-> Zero, FrozenBalance |-> Zero,
     PositionMargin |-> Zero, OrderMargin |-> Zero, UnrealizedPnL |-> Zero,
     RealizedPnL |-> Zero, MarginLevel |-> Zero, MarginRatio |-> Zero]

\* x clamped at 0 from below
ClampZero(x) == IF DGreaterThan(Zero, x) THEN Zero ELSE x

\* FreezeOrderMargin as it would be without the check against the available
\* balance and without the clamp
MarginAccount_FreezeOrderMargin_Unchecked(a, amount) ==
    IF DLessThanOrEqual(amount, Zero)
    THEN [a |-> a, err |-> "amount must be greater than zero"]
    ELSE [a |-> [a EXCEPT !.AvailableBalance = FloatSub(a.AvailableBalance, amount),
                          !.FrozenBalance = FloatAdd(a.FrozenBalance, amount),
                          !.OrderMargin = FloatAdd(a.OrderMargin, amount)],
          err |-> "nil"]

MarginAccount_FreezeOrderMargin(a, amount) ==
    IF DLessThanOrEqual(amount, Zero)
    THEN [a |-> a, err |-> "amount must be greater than zero"]
    ELSE IF DGreaterThan(amount, a.AvailableBalance)
    THEN [a |-> a, err |-> "available balance not enough"]
    ELSE [a |-> [a EXCEPT !.AvailableBalance = ClampZero(FloatSub(a.AvailableBalance, amount)),
                          !.FrozenBalance = FloatAdd(a.FrozenBalance, amount),
                          !.OrderMargin = FloatAdd(a.OrderMargin, amount)],
          err |-> "nil"]

\* UnFreezeOrderMargin as it would be if it left orderMargin alone
MarginAccount_UnFreezeOrderMargin_KeepsOrderMargin(a, amount) ==
    IF DLessThanOrEqual(amount, Zero)
    THEN [a |-> a, err |-> "amount must be greater than zero"]
    ELSE IF DGreaterThan(amount, a.FrozenBalance)
    THEN [a |-> a, err |-> "frozen balance not enough to unfreeze"]
    ELSE [a |-> [a EXCEPT !.AvailableBalance = FloatAdd(a.AvailableBalance, amount),
                          !.FrozenBalance = ClampZero(FloatSub(a.FrozenBalance, amount))],
          err |-> "nil"]

MarginAccount_UnFreezeOrderMargin(a, amount) ==
    IF DLessThanOrEqual(amount, Zero)
    THEN [a |-> a, err |-> "amount must be greater than zero"]
    ELSE IF DGreaterThan(amount, a.FrozenBalance)
    THEN [a |-> a, err |-> "frozen balance not enough to unfreeze"]
    ELSE [a |-> [a EXCEPT !.AvailableBalance = FloatAdd(a.AvailableBalance, amount),
                          !.FrozenBalance = ClampZero(FloatSub(a.FrozenBalance, amount)),
                          !.OrderMargin = ClampZero(FloatSub(a.OrderMargin, amount))],
          err |-> "nil"]

\* the availableBalance the method computes is a local it never stores
MarginAccount_UpdateMarginAndPnl(a, margin, pnl) ==
    [a EXCEPT !.PositionMargin = margin,
              !.UnrealizedPnL = pnl,
              !.MarginRatio = IF DGreaterThan(margin, Zero)
                              THEN FloatDiv(FloatAdd(a.Balance, pnl), margin)
                              ELSE Rat(99999, 100)]

GetAccountEquity(a) == FloatAdd(a.Balance, a.UnrealizedPnL)

GetUsedMargin(a) == FloatAdd(a.PositionMargin, a.OrderMargin)

MarginAccount_Deposit(a, amount) ==
    [a EXCEPT !.Balance = FloatAdd(a.Balance, amount),
              !.AvailableBalance = FloatAdd(a.AvailableBalance, amount)]

MarginAccount_Withdraw(a, amount) ==
    IF DGreaterThan(amount, a.AvailableBalance)
    THEN [a |-> a, err |-> "insufficient available balance"]
    ELSE [a |-> [a EXCEPT !.Balance = ClampZero(FloatSub(a.Balance, amount)),
                          !.AvailableBalance = ClampZero(FloatSub(a.AvailableBalance, amount))],
          err |-> "nil"]

\* ------------------------------------------------------------------ buckets

EmptyMap == [k \in {} |-> 0]
MapPut(m, k, v) == [x \in DOMAIN m \cup {k} |-> IF x = k THEN v ELSE m[x]]
MapDelete(m, k) == [x \in DOMAIN m \ {k} |-> m[x]]

\* AtomicPositions.remove on the scan's working state: the slice is the first
\* len cells of the backing array; an index past len aborts the call
remove(st, index) ==
    IF index > st.len
    THEN [st EXCEPT !.panic = TRUE]
    ELSE [st EXCEPT !.backing[index] = st.backing[st.len], !.len = st.len - 1]

\* One iteration of `for idx, pos := range ap.slice`: the range runs over the
\* slice header taken at loop entry, so it visits every cell of the backing
\* array up to the original length, whatever remove did to ap.slice.
scanStep(st, idx, price) ==
    LET id == st.backing[idx]
    IN  IF st.heap[id].Status # PositionNormal THEN st
        ELSE LET q == UpdateMarkPrice(st.heap[id], price)
                 st1 == [st EXCEPT !.heap[id] = q]
             IN  CASE q.Status = PositionClosed -> remove(st1, idx)
                   [] q.Status = PositionLiquidating ->
                        remove([st1 EXCEPT !.liquidateList = Append(st.liquidateList, id)], idx)
                   [] OTHER -> st1

RECURSIVE scanFrom(_, _, _)
scanFrom(st, idx, price) ==
    IF st.panic \/ idx > Len(st.backing) THEN st
    ELSE scanFrom(scanStep(st, idx, price), idx + 1, price)

\* AtomicPositions.UpdateMarkPrice: [slice, heap, liquidateList, panic]
BucketUpdateMarkPrice(slice, h, price) ==
    LET st == scanFrom([backing |-> slice, len |-> Len(slice), heap |-> h,
                        liquidateList |-> <<>>, panic |-> FALSE], 1, price)
    IN  [slice |-> SubSeq(st.backing, 1, st.len), heap |-> st.heap,
         liquidateList |-> st.liquidateList, panic |-> st.panic]

\* ------------------------------------------------------------------ manager.go
\* A manager state st is [heap, userPositions, mode, container]: heap holds the
\* Position objects by id, userPositions and container hold ids (pointers).
\* Every handler is a function of the state it is called in and its arguments;
\* it yields the state the call leaves and what the call returns: ret is the
\* id of the returned *Position (0 for nil), err the error ("nil" for none).

hasOpenPosition(up, h) ==
    \E k \in DOMAIN up : DGreaterThan(h[up[k]].Size, ZeroSize(h[up[k]]))

getPositionKey(symbol, side, m) ==
    IF m = HedgeMode THEN SideString(side) \o "_" \o symbol ELSE symbol

Here == [heap |-> heap, userPositions |-> userPositions, mode |-> mode,
         container |-> container]

Return(st, ret, err) ==
    [heap |-> st.heap, userPositions |-> st.userPositions, mode |-> st.mode,
     container |-> st.container, ret |-> ret, err |-> err, pnl |-> Zero,
     liquidateList |-> <<>>]

\* the manager state a call's result carries
StateOf(r) == [heap |-> r.heap, userPositions |-> r.userPositions, mode |-> r.mode,
               container |-> r.container]

GetPosition(st, userID, symbol, side) ==
    IF userID \notin DOMAIN st.userPositions
    THEN Return(st, 0, "user does not have any userPositions")
    ELSE IF userID \notin DOMAIN st.mode
    THEN Return(st, 0, "missing user position mode param")
    ELSE LET positionKey == getPositionKey(symbol, side, st.mode[userID])
         IN  IF positionKey \notin DOMAIN st.userPositions[userID]
             THEN Return(st, 0, "position does not exist")
             ELSE Return(st, st.userPositions[userID][positionKey], "nil")

\* the ids of the positions GetUserPositions lists
GetUserPositions(st, userID) ==
    IF userID \in DOMAIN st.userPositions
    THEN [ret |-> {st.userPositions[userID][k] : k \in DOMAIN st.userPositions[userID]},
          err |-> "nil"]
    ELSE [ret |-> {}, err |-> "cannot get positions for user"]

\* AddPosition as it would be if the bucket appended the position twice
AddPosition_AppendsTwice(c, symbol, id) ==
    IF symbol \in DOMAIN c
    THEN [container |-> [c EXCEPT ![symbol] = Append(Append(@, id), id)], err |-> "nil"]
    ELSE [container |-> c, err |-> "symbol not exist"]

\* SymbolPositions.AddPosition: [container, err]
AddPosition(c, symbol, id) ==
    IF symbol \in DOMAIN c
    THEN [container |-> [c EXCEPT ![symbol] = Append(@, id)], err |-> "nil"]
    ELSE [container |-> c, err |-> "symbol not exist"]

OpenPosition(st, marginMode, userID, symbol, side, price, size, leverage) ==
    LET fresh == userID \notin DOMAIN st.userPositions
        st1 == IF fresh
               THEN [st EXCEPT !.userPositions = MapPut(@, userID, EmptyMap),
                               !.mode = MapPut(@, userID, OneWayMode)]
               ELSE st
        positionKey == getPositionKey(symbol, side, st1.mode[userID])
        found == positionKey \in DOMAIN st1.userPositions[userID]
        existing == st1.userPositions[userID][positionKey]
    IN  IF found /\ DGreaterThan(st.heap[existing].Size, ZeroSize(st.heap[existing]))
        THEN LET r == Add(st.heap[existing], price, size)
             IN  Return([st1 EXCEPT !.heap[existing] = r.p], existing, r.err)
        ELSE LET id == Len(st.heap) + 1
                 r == Open(NewPosition(id, userID, symbol, marginMode), side, price, size, leverage)
             IN  IF r.err # "nil" THEN Return(st1, 0, r.err)
                 ELSE LET a == AddPosition(st.container, symbol, id)
                          st2 == [st1 EXCEPT !.heap = Append(@, r.p),
                                             !.userPositions[userID] = MapPut(@, positionKey, id),
                                             !.container = a.container]
                      IN  IF a.err # "nil" THEN Return(st2, 0, a.err)
                          ELSE Return(st2, id, "nil")

\* `if userPosition, exists := pm.userPositions[positionKey]; exists {
\*      delete(userPosition, positionKey) }`
removeFromManager(up, positionKey) ==
    IF positionKey \in DOMAIN up
    THEN [up EXCEPT ![positionKey] = MapDelete(up[positionKey], positionKey)]
    ELSE up

ClosePosition(st, userID, symbol, side, price) ==
    LET g == GetPosition(st, userID, symbol, side)
    IN  IF g.err # "nil" THEN g
        ELSE LET r == Close(st.heap[g.ret], price)
             IN  IF r.err # "nil" THEN Return(st, g.ret, r.err)
                 ELSE [Return([st EXCEPT
                                 !.heap[g.ret] = r.p,
                                 !.userPositions = removeFromManager(@,
                                        getPositionKey(symbol, side, st.mode[userID]))],
                              g.ret, "nil")
                       EXCEPT !.pnl = r.pnl]

ReducePosition(st, userID, symbol, side, price, size) ==
    LET g == GetPosition(st, userID, symbol, side)
    IN  IF g.err # "nil" THEN g
        ELSE LET r == Reduce(st.heap[g.ret], price, size)
             IN  IF r.err # "nil" THEN Return(st, g.ret, r.err)
                 ELSE [Return([st EXCEPT
                                 !.heap[g.ret] = r.p,
                                 !.userPositions =
                                    IF r.p.Status = PositionClosed
                                    THEN removeFromManager(@,
                                            getPositionKey(symbol, side, st.mode[userID]))
                                    ELSE @],
                              g.ret, "nil")
                       EXCEPT !.pnl = r.pnl]

\* err is "panic" when the bucket scan aborts
UpdateMarkPrices(st, symbol, price) ==
    IF symbol \in DOMAIN st.container
    THEN LET r == BucketUpdateMarkPrice(st.container[symbol], st.heap, price)
         IN  [Return([st EXCEPT !.heap = r.heap, !.container[symbol] = r.slice],
                     0, IF r.panic THEN "panic" ELSE "nil")
              EXCEPT !.liquidateList = r.liquidateList]
    ELSE Return(st, 0, "symbol not exist")

SetPositionMode(st, userID, m) ==
    IF userID \in DOMAIN st.userPositions /\ hasOpenPosition(st.userPositions[userID], st.heap)
    THEN Return(st, 0, "cannot change position mode with open userPositions")
    ELSE Return([st EXCEPT !.mode = MapPut(@, userID, m)], 0, "nil")

\* ------------------------------------------------------------------ specification

\* NewPositionManager(symbols): no users, no modes, an empty bucket per symbol
MgrInit ==
    /\ heap = <<>>
    /\ userPositions = EmptyMap
    /\ mode = EmptyMap
    /\ container = [s \in RegisteredSymbols |-> <<>>]

\* posReturned is the sum of the pnl values Reduce and Close have returned
PosInit ==
    /\ pos = NewPosition(1, "alice", "BTC", ISOLATED)
    /\ posTrades = 0
    /\ posReturned = Zero

\* ------------------------------------------------------------------ MarginSystem
\* accs is ms.accounts, user id -> MarginAccount; st is the state of the
\* position manager.  A handler yields [accounts, err].

DefaultInitialMarginRate == InexactFloat64(Rat(1, 10))
MinInitialMargin == NewFromInt(1)
DefaultMaintenanceMarginRate == InexactFloat64(Rat(5, 100))

\* the requirement getRequirement makes up for a symbol that has none: no
\* TierBrackets
DefaultRequirement ==
    [MaintenanceMarginRate |-> DefaultMaintenanceMarginRate, TierBrackets |-> <<>>]

\* first bracket with MinValue <= positionValue < MaxValue, 0 when none
RECURSIVE tierBracket(_, _, _)
tierBracket(brackets, positionValue, i) ==
    IF i > Len(brackets) THEN 0
    ELSE IF /\ ~DGreaterThan(NewFromInt(brackets[i].MinValue), positionValue)
            /\ DGreaterThan(NewFromInt(brackets[i].MaxValue), positionValue)
         THEN i
         ELSE tierBracket(brackets, positionValue, i + 1)

\* positionValue is a float64; without a matching bracket the flat rate of
\* the requirement applies
CalculateMaintenanceMargin(requirement, positionValue) ==
    LET i == tierBracket(requirement.TierBrackets, positionValue, 1)
    IN  IF i # 0
        THEN FloatMul(positionValue, InexactFloat64(requirement.TierBrackets[i].MaintenanceRate))
        ELSE FloatMul(positionValue, requirement.MaintenanceMarginRate)

GetAccount(accs, userID) ==
    IF userID \in DOMAIN accs THEN "nil" ELSE "account not found"

CreateAccount(accs, userID) ==
    IF userID \in DOMAIN accs
    THEN [accounts |-> accs, err |-> "account already exists"]
    ELSE [accounts |-> MapPut(accs, userID, NewMarginAccount(userID)), err |-> "nil"]

\* getRequirement falls back to the default requirement: no symbol has one of
\* its own, nothing in the repository calls SetSymbolRequirement
CalculateInitialMargin(symbol, size, price, leverage) ==
    LET positionValue == FloatMul(size, price)
        initialMarginByLeverage == FloatDiv(positionValue, NewFromInt(leverage))
        initialMarginByRate == FloatMul(positionValue, DefaultInitialMarginRate)
        initialMargin == IF DGreaterThan(initialMarginByRate, initialMarginByLeverage)
                         THEN initialMarginByRate ELSE initialMarginByLeverage
    IN  IF DGreaterThan(MinInitialMargin, initialMargin) THEN MinInitialMargin
        ELSE initialMargin

\* sync.RWMutex: RLock blocks while the lock is held for writing, also when
\* the holder is the calling goroutine itself
RLockBlocks(mu) == mu = "held"

\* CheckOrderMargin yields [returns, mu, err]: whether the call returns, the
\* state of ms.mu it leaves, and the error it returns if it does
CheckOrderMargin(accs, userID, symbol, size, price, leverage) ==
    LET mu == "held"    \* ms.mu.Lock()
    IN  IF RLockBlocks(mu)    \* ms.GetAccount: ms.mu.RLock()
        THEN [returns |-> FALSE, mu |-> mu, err |-> "nil"]
        ELSE IF GetAccount(accs, userID) # "nil"
        THEN [returns |-> TRUE, mu |-> "free", err |-> GetAccount(accs, userID)]
        ELSE IF DGreaterThan(CalculateInitialMargin(symbol, size, price, leverage),
                             accs[userID].AvailableBalance)
        THEN [returns |-> TRUE, mu |-> "free", err |-> "insufficient margin"]
        ELSE [returns |-> TRUE, mu |-> "free", err |-> "nil"]

MarginSystem_FreezeOrderMargin(accs, userID, amount) ==
    IF userID \in DOMAIN accs
    THEN LET r == MarginAccount_FreezeOrderMargin(accs[userID], amount)
         IN  [accounts |-> [accs EXCEPT ![userID] = r.a], err |-> r.err]
    ELSE [accounts |-> accs, err |-> "account not found"]

MarginSystem_UnfreezeOrderMargin(accs, userID, amount) ==
    IF userID \in DOMAIN accs
    THEN LET r == MarginAccount_UnFreezeOrderMargin(accs[userID], amount)
         IN  [accounts |-> [accs EXCEPT ![userID] = r.a], err |-> r.err]
    ELSE [accounts |-> accs, err |-> "account not found"]

\* the orders in which `for _, pos := range positions` can meet the positions
\* GetUserPositions lists
IterationOrders(ids) ==
    {o \in [1..Cardinality(ids) -> ids] : \A i, j \in DOMAIN o : o[i] = o[j] => i = j}

\* totalPositionMargin and totalUnrealizedPnL after the loop over order
RECURSIVE TotalPositionMargin(_, _)
TotalPositionMargin(h, order) ==
    IF Len(order) = 0 THEN Zero
    ELSE LET total == TotalPositionMargin(h, SubSeq(order, 1, Len(order) - 1))
             p == h[order[Len(order)]]
         IN  IF p.Status # PositionClosed
             THEN FloatAdd(total, InexactFloat64(p.InitialMargin))
             ELSE total

\* the loop as it would be without the `pos.Status != position.PositionClosed` test
RECURSIVE TotalUnrealizedPnL_CountsClosed(_, _)
TotalUnrealizedPnL_CountsClosed(h, order) ==
    IF Len(order) = 0 THEN Zero
    ELSE FloatAdd(TotalUnrealizedPnL_CountsClosed(h, SubSeq(order, 1, Len(order) - 1)),
                  InexactFloat64(h[order[Len(order)]].UnrealizedPnL))

RECURSIVE TotalUnrealizedPnL(_, _)
TotalUnrealizedPnL(h, order) ==
    IF Len(order) = 0 THEN Zero
    ELSE LET total == TotalUnrealizedPnL(h, SubSeq(order, 1, Len(order) - 1))
             p == h[order[Len(order)]]
         IN  IF p.Status # PositionClosed
             THEN FloatAdd(total, InexactFloat64(p.UnrealizedPnL))
             ELSE total

\* order is the order in which the loop meets the user's positions
UpdatePositionMargin(accs, st, userID, order) ==
    IF userID \notin DOMAIN accs
    THEN [accounts |-> accs, err |-> "account not found"]
    ELSE IF GetUserPositions(st, userID).err # "nil"
    THEN [accounts |-> accs, err |-> GetUserPositions(st, userID).err]
    ELSE [accounts |-> [accs EXCEPT ![userID] =
                            MarginAccount_UpdateMarginAndPnl(@,
                                TotalPositionMargin(st.heap, order),
                                TotalUnrealizedPnL(st.heap, order))],
          err |-> "nil"]

\* GetMarginLevel as it would be if the used margin were the position margin alone
GetMarginLevel_NoOrderMargin(accs, userID) ==
    IF GetAccount(accs, userID) # "nil"
    THEN [ret |-> Zero, err |-> GetAccount(accs, userID)]
    ELSE LET accountEquity == GetAccountEquity(accs[userID])
             usedMargin == accs[userID].PositionMargin
         IN  IF DLessThanOrEqual(usedMargin, Zero)
             THEN [ret |-> NewFromInt(999), err |-> "nil"]
             ELSE [ret |-> FloatDiv(accountEquity, usedMargin), err |-> "nil"]

\* GetMarginLevel and MarginSystem.IsLiquidatable yield [ret, err]
GetMarginLevel(accs, userID) ==
    IF GetAccount(accs, userID) # "nil"
    THEN [ret |-> Zero, err |-> GetAccount(accs, userID)]
    ELSE LET accountEquity == GetAccountEquity(accs[userID])
             usedMargin == GetUsedMargin(accs[userID])
         IN  IF DLessThanOrEqual(usedMargin, Zero)
             THEN [ret |-> NewFromInt(999), err |-> "nil"]
             ELSE [ret |-> FloatDiv(accountEquity, usedMargin), err |-> "nil"]

MarginSystem_IsLiquidatable(accs, userID) ==
    LET l == GetMarginLevel(accs, userID)
    IN  IF l.err # "nil" THEN [ret |-> FALSE, err |-> l.err]
        ELSE [ret |-> DGreaterThan(NewFromInt(1), l.ret), err |-> "nil"]

MarginSystem_Deposit(accs, userID, amount) ==
    IF DLessThanOrEqual(amount, Zero)
    THEN [accounts |-> accs, err |-> "amount must be greater than zero"]
    ELSE IF GetAccount(accs, userID) # "nil"
    THEN [accounts |-> accs, err |-> GetAccount(accs, userID)]
    ELSE [accounts |-> [accs EXCEPT ![userID] = MarginAccount_Deposit(@, amount)],
          err |-> "nil"]

MarginSystem_Withdraw(accs, userID, amount) ==
    IF DLessThanOrEqual(amount, Zero)
    THEN [accounts |-> accs, err |-> "amount must be greater than zero"]
    ELSE IF GetAccount(accs, userID) # "nil"
    THEN [accounts |-> accs, err |-> GetAccount(accs, userID)]
    ELSE LET r == MarginAccount_Withdraw(accs[userID], amount)
         IN  [accounts |-> [accs EXCEPT ![userID] = r.a], err |-> r.err]

\* account is one MarginAccount driven through its own methods; accounts and
\* msMu are the MarginSystem: its accounts by user id, and its mutex
MarginInit ==
    /\ account = NewMarginAccount("alice")
    /\ accounts = EmptyMap
    /\ msMu = "free"

\* scan is the goroutine inside AtomicPositions.UpdateMarkPrice, if any: where
\* it stands in the loop, the locals of the call, the manager state st0 it
\* started in and the trade that ran meanwhile.  th is the read/write lock of
\* the Position pos and the goroutines using it.
NoTrade == [op |-> "none"]
ScanIdle ==
    [phase |-> "idle", symbol |-> "", price |-> 0, backing |-> <<>>, len |-> 0,
     liquidateList |-> <<>>, panic |-> FALSE, idx |-> 0, pc |-> "", trade |-> NoTrade,
     st0 |-> [heap |-> <<>>, userPositions |-> EmptyMap, mode |-> EmptyMap,
              container |-> EmptyMap]]

ThreadsIdle == [readers |-> 0, writer |-> "none", rpc |-> "idle", aborted |-> FALSE]

Goroutines == 1..MaxGoroutines

\* what a goroutine is in: the operation, the number of its locking calls and
\* map accesses that have returned, and whether it is inside a Lock or RLock
\* call that has not returned yet
GoroutineIdle == [op |-> "idle", pc |-> 0, waiting |-> FALSE]

ConcInit ==
    /\ scan = ScanIdle
    /\ th = ThreadsIdle
    /\ locks = [g \in Goroutines |-> GoroutineIdle]

Init == MgrInit /\ PosInit /\ MarginInit /\ ConcInit

\* the call returns and leaves the manager in state r
Becomes(r) ==
    /\ heap' = r.heap
    /\ userPositions' = r.userPositions
    /\ mode' = r.mode
    /\ container' = r.container
    /\ UNCHANGED <<posVars, marginVars, concVars>>

\* the calls of a run stay within MaxPositions positions of size <= MaxTotalSize
WithinBounds(r) ==
    /\ Len(r.heap) <= MaxPositions
    /\ \A i \in 1..Len(r.heap) : ~DGreaterThan(r.heap[i].Size, NewFromInt(MaxTotalSize))

DoOpenPosition ==
    \E userID \in UserIDs, symbol \in AllSymbols, side \in PositionSides,
       price \in TradePrices, size \in TradeSizes, leverage \in Leverages :
        LET r == OpenPosition(Here, ISOLATED, userID, symbol, side, price, size, leverage)
        IN  WithinBounds(r) /\ Becomes(r)

DoClosePosition ==
    \E userID \in UserIDs, symbol \in AllSymbols, side \in PositionSides, price \in TradePrices :
        Becomes(ClosePosition(Here, userID, symbol, side, price))

DoReducePosition ==
    \E userID \in UserIDs, symbol \in AllSymbols, side \in PositionSides,
       price \in TradePrices, size \in TradeSizes :
        Becomes(ReducePosition(Here, userID, symbol, side, price, size))

DoUpdateMarkPrices ==
    \E symbol \in AllSymbols, price \in MarkPrices :
        Becomes(UpdateMarkPrices(Here, symbol, price))

DoSetPositionMode ==
    \E userID \in UserIDs, m \in PositionModes : Becomes(SetPositionMode(Here, userID, m))

Next ==
    \/ DoOpenPosition
    \/ DoClosePosition
    \/ DoReducePosition
    \/ DoUpdateMarkPrices
    \/ DoSetPositionMode

Spec == Init /\ [][Next]_vars

\* ---- one Position driven directly through its own methods

\* r is the [p, err, pnl] a Position method returns; an Add, Reduce or Close
\* that changes the position counts as a trade.  A method that panics does
\* not return: nothing in the repository recovers, the program ends there.
PosBecomes(r, trade) ==
    /\ r.err # "panic"
    /\ pos' = r.p
    /\ posTrades' = IF trade /\ r.p # pos THEN posTrades + 1 ELSE posTrades
    /\ posTrades' <= MaxTrades
    /\ posReturned' = IF r.err = "nil" THEN DAdd(posReturned, r.pnl) ELSE posReturned
    /\ UNCHANGED <<mgrVars, marginVars, concVars>>

PosOpen ==
    \E side \in PositionSides, price \in PosPrices, size \in TradeSizes, leverage \in Leverages :
        PosBecomes(Open(pos, side, price, size, leverage), FALSE)

PosAdd ==
    \E price \in PosPrices, size \in TradeSizes : PosBecomes(Add(pos, price, size), TRUE)

PosReduce ==
    \E price \in PosPrices, size \in TradeSizes : PosBecomes(Reduce(pos, price, size), TRUE)

PosClose ==
    \E price \in PosPrices : PosBecomes(Close(pos, price), TRUE)

PosUpdateMarkPrice ==
    \E markPrice \in PosPrices :
        PosBecomes([p |-> UpdateMarkPrice(pos, markPrice), err |-> "nil", pnl |-> Zero], FALSE)

PosCalculateLiquidationPrice ==
    PosBecomes([p |-> CalculateLiquidationPrice(pos).p, err |-> "nil", pnl |-> Zero], FALSE)

PosNext ==
    \/ PosOpen
    \/ PosAdd
    \/ PosReduce
    \/ PosClose
    \/ PosUpdateMarkPrice
    \/ PosCalculateLiquidationPrice

\* Open validates nothing: it accepts a size of zero as it accepts any other
PosOpenZero ==
    \E side \in PositionSides, price \in PosPrices, leverage \in Leverages :
        PosBecomes(Open(pos, side, price, 0, leverage), FALSE)

PosNext0 ==
    \/ PosNext
    \/ PosOpenZero

PosSpec0 == Init /\ [][PosNext0]_vars

\* Notionals across the default tier table: Open at entry price 1 with a size
\* on either side of every tier boundary and on the first two boundaries, at leverages from 1 to the largest
\* the specification admits; Add at the same price carries a size across a
\* boundary.
TierSizes == {1000, 2000, 49000, 50000, 51000, 249000, 250000, 251000, 999000, 1001000,
              4999000, 5001000, 9999000, 10001000, 19999000, 20001000, 49999000, 50001000}
TierLeverages == {1, 10, 125}

TierOpen ==
    \E side \in PositionSides, size \in TierSizes, leverage \in TierLeverages :
        PosBecomes(Open(pos, side, 1, size, leverage), FALSE)

TierAdd ==
    \E size \in TierSizes :
        /\ pos.Size[2] = 1
        /\ size + pos.Size[1] \in TierSizes
        /\ PosBecomes(Add(pos, 1, size), FALSE)

TierNext ==
    \/ TierOpen
    \/ TierAdd
    \/ PosCalculateLiquidationPrice

TierSpec == Init /\ [][TierNext]_vars

PosSpec == Init /\ [][PosNext]_vars

\* ---- one MarginAccount driven directly through its own methods, with the
\* arguments MarginSystem passes on: amounts > 0, a position margin >= 0

AccountAmounts == {1, 2}
AccountMargins == {0, 1, 2}
AccountPnLs == {-2, -1, 0, 1}

\* r is the [a, err] an account method returns
AccountBecomes(r) ==
    /\ account' = r.a
    /\ UNCHANGED <<mgrVars, posVars, accounts, msMu, concVars>>

AcctDeposit ==
    \E amount \in AccountAmounts :
        AccountBecomes([a |-> MarginAccount_Deposit(account, NewFromInt(amount)), err |-> "nil"])

AcctWithdraw ==
    \E amount \in AccountAmounts :
        AccountBecomes(MarginAccount_Withdraw(account, NewFromInt(amount)))

AcctFreezeOrderMargin ==
    \E amount \in AccountAmounts :
        AccountBecomes(MarginAccount_FreezeOrderMargin(account, NewFromInt(amount)))

AcctUnFreezeOrderMargin ==
    \E amount \in AccountAmounts :
        AccountBecomes(MarginAccount_UnFreezeOrderMargin(account, NewFromInt(amount)))

AcctUpdateMarginAndPnl ==
    \E margin \in AccountMargins, pnl \in AccountPnLs :
        AccountBecomes([a |-> MarginAccount_UpdateMarginAndPnl(account, NewFromInt(margin),
                                                              NewFromInt(pnl)),
                        err |-> "nil"])

AccountNext ==
    \/ AcctDeposit
    \/ AcctWithdraw
    \/ AcctFreezeOrderMargin
    \/ AcctUnFreezeOrderMargin
    \/ AcctUpdateMarginAndPnl

AccountSpec == Init /\ [][AccountNext]_vars

\* ---- the MarginSystem over the position manager: alice has an account and
\* trades one symbol, in either position mode; the other user has neither

MarginUsers == {"alice"}
MarginSymbols == {"BTC"}
SystemAmounts == {0, 1}
MarginSizes == {1}
MarginMarkPrices == {1}

\* r is the [accounts, err] a MarginSystem handler returns; the handler takes
\* ms.mu on entry and releases it on return
SystemBecomes(r) ==
    /\ msMu = "free"
    /\ accounts' = r.accounts
    /\ UNCHANGED <<mgrVars, posVars, account, msMu, concVars>>

SysCreateAccount ==
    \E userID \in MarginUsers : SystemBecomes(CreateAccount(accounts, userID))

\* the deposits of a run stay within a balance of MaxBalance
SysDeposit ==
    \E userID \in UserIDs, amount \in SystemAmounts :
        LET r == MarginSystem_Deposit(accounts, userID, NewFromInt(amount))
        IN  /\ \A u \in DOMAIN r.accounts :
                   ~DGreaterThan(r.accounts[u].Balance, NewFromInt(MaxBalance))
            /\ SystemBecomes(r)

SysWithdraw ==
    \E userID \in UserIDs, amount \in SystemAmounts :
        SystemBecomes(MarginSystem_Withdraw(accounts, userID, NewFromInt(amount)))

SysFreezeOrderMargin ==
    \E userID \in UserIDs, amount \in SystemAmounts :
        SystemBecomes(MarginSystem_FreezeOrderMargin(accounts, userID, NewFromInt(amount)))

SysUnfreezeOrderMargin ==
    \E userID \in UserIDs, amount \in SystemAmounts :
        SystemBecomes(MarginSystem_UnfreezeOrderMargin(accounts, userID, NewFromInt(amount)))

SysUpdatePositionMargin ==
    \E userID \in UserIDs :
        \E order \in IterationOrders(GetUserPositions(Here, userID).ret) :
            SystemBecomes(UpdatePositionMargin(accounts, Here, userID, order))

\* a call that does not return keeps what it holds
SysCheckOrderMargin ==
    \E userID \in UserIDs, symbol \in MarginSymbols, size \in MarginSizes,
       price \in TradePrices, leverage \in Leverages :
        LET r == CheckOrderMargin(accounts, userID, symbol, NewFromInt(size),
                                  NewFromInt(price), leverage)
        IN  /\ msMu = "free"
            /\ msMu' = r.mu
            /\ UNCHANGED <<mgrVars, posVars, account, accounts, concVars>>

SysOpenPosition ==
    \E userID \in MarginUsers, symbol \in MarginSymbols, side \in PositionSides,
       price \in TradePrices, size \in MarginSizes, leverage \in Leverages :
        LET r == OpenPosition(Here, ISOLATED, userID, symbol, side, price, size, leverage)
        IN  WithinBounds(r) /\ Becomes(r)

SysClosePosition ==
    \E userID \in MarginUsers, symbol \in MarginSymbols, side \in PositionSides,
       price \in TradePrices :
        Becomes(ClosePosition(Here, userID, symbol, side, price))

SysReducePosition ==
    \E userID \in MarginUsers, symbol \in MarginSymbols, side \in PositionSides,
       price \in TradePrices, size \in MarginSizes :
        Becomes(ReducePosition(Here, userID, symbol, side, price, size))

SysUpdateMarkPrices ==
    \E symbol \in MarginSymbols, price \in MarginMarkPrices :
        Becomes(UpdateMarkPrices(Here, symbol, price))

SysSetPositionMode ==
    \E userID \in MarginUsers, m \in PositionModes :
        Becomes(SetPositionMode(Here, userID, m))

MarginNext ==
    \/ SysCreateAccount
    \/ SysDeposit
    \/ SysWithdraw
    \/ SysFreezeOrderMargin
    \/ SysUnfreezeOrderMargin
    \/ SysUpdatePositionMargin
    \/ SysCheckOrderMargin
    \/ SysOpenPosition
    \/ SysClosePosition
    \/ SysReducePosition
    \/ SysUpdateMarkPrices
    \/ SysSetPositionMode

MarginSpec == Init /\ [][MarginNext]_vars

\* ---- a trade on a position while a mark-price update scans its bucket.
\* OpenPosition holds pm.mu, and Add, Reduce and UpdateMarkPrice hold the
\* position's lock for their whole body; the scan holds the bucket's lock and
\* reads pos.Status outside the position's lock.  So a trade is one step, and
\* an iteration of the scan is three: the status test, pos.UpdateMarkPrice,
\* and the clean-up switch on the status.

\* the trades: OpenPosition on an open position (it delegates to Add),
\* ReducePosition and ClosePosition, of one user on one symbol
Trades ==
    {[op |-> o, userID |-> u, symbol |-> y, side |-> d, price |-> c, size |-> z] :
        o \in {"add", "reduce", "close"}, u \in MarginUsers, y \in MarginSymbols,
        d \in PositionSides, c \in TradePrices, z \in MarginSizes}

\* what the trade t returns when called in the manager state st
TradeApply(st, t) ==
    CASE t.op = "add" ->
            OpenPosition(st, ISOLATED, t.userID, t.symbol, t.side, t.price, t.size, 2)
      [] t.op = "reduce" -> ReducePosition(st, t.userID, t.symbol, t.side, t.price, t.size)
      [] t.op = "close" -> ClosePosition(st, t.userID, t.symbol, t.side, t.price)

\* OpenPosition on the state st meets an open position and so calls Add
DelegatesToAdd(st, t) ==
    /\ t.userID \in DOMAIN st.userPositions
    /\ LET positionKey == getPositionKey(t.symbol, t.side, st.mode[t.userID])
       IN  /\ positionKey \in DOMAIN st.userPositions[t.userID]
           /\ DGreaterThan(st.heap[st.userPositions[t.userID][positionKey]].Size, Zero)

\* the calls made while no scan is running
RaceOpenPosition ==
    \E userID \in MarginUsers, symbol \in MarginSymbols, side \in PositionSides,
       price \in TradePrices, size \in MarginSizes, leverage \in Leverages :
        LET r == OpenPosition(Here, ISOLATED, userID, symbol, side, price, size, leverage)
        IN  /\ scan.phase # "scan"
            /\ WithinBounds(r)
            /\ heap' = r.heap /\ userPositions' = r.userPositions
            /\ mode' = r.mode /\ container' = r.container
            /\ scan' = ScanIdle
            /\ UNCHANGED <<posVars, marginVars, th, locks>>

RaceSetPositionMode ==
    \E userID \in MarginUsers, m \in PositionModes :
        LET r == SetPositionMode(Here, userID, m)
        IN  /\ scan.phase # "scan"
            /\ heap' = r.heap /\ userPositions' = r.userPositions
            /\ mode' = r.mode /\ container' = r.container
            /\ scan' = ScanIdle
            /\ UNCHANGED <<posVars, marginVars, th, locks>>

\* UpdateMarkPrices(symbol, price) enters the bucket's UpdateMarkPrice
ScanBegin ==
    \E symbol \in MarginSymbols, price \in MarginMarkPrices :
        /\ scan.phase # "scan"
        /\ symbol \in DOMAIN container
        /\ scan' = [ScanIdle EXCEPT !.phase = "scan", !.symbol = symbol, !.price = price,
                                    !.backing = container[symbol],
                                    !.len = Len(container[symbol]),
                                    !.idx = 1, !.pc = "status", !.st0 = Here]
        /\ UNCHANGED <<mgrVars, posVars, marginVars, th, locks>>

\* `if pos.Status != PositionNormal { continue }`
ScanStatus ==
    /\ scan.phase = "scan" /\ scan.pc = "status" /\ ~scan.panic
    /\ scan.idx <= Len(scan.backing)
    /\ scan' = IF heap[scan.backing[scan.idx]].Status # PositionNormal
               THEN [scan EXCEPT !.idx = @ + 1]
               ELSE [scan EXCEPT !.pc = "update"]
    /\ UNCHANGED <<mgrVars, posVars, marginVars, th, locks>>

\* `pos.UpdateMarkPrice(price)`
ScanUpdate ==
    /\ scan.phase = "scan" /\ scan.pc = "update"
    /\ heap' = [heap EXCEPT ![scan.backing[scan.idx]] = UpdateMarkPrice(@, scan.price)]
    /\ scan' = [scan EXCEPT !.pc = "clean"]
    /\ UNCHANGED <<userPositions, mode, container, posVars, marginVars, th, locks>>

\* `switch pos.Status { ... }`
ScanClean ==
    /\ scan.phase = "scan" /\ scan.pc = "clean"
    /\ LET id == scan.backing[scan.idx]
           w == [backing |-> scan.backing, len |-> scan.len, heap |-> heap,
                 liquidateList |-> scan.liquidateList, panic |-> scan.panic]
           w1 == CASE heap[id].Status = PositionClosed -> remove(w, scan.idx)
                   [] heap[id].Status = PositionLiquidating ->
                        remove([w EXCEPT !.liquidateList = Append(@, id)], scan.idx)
                   [] OTHER -> w
       IN  scan' = [scan EXCEPT !.backing = w1.backing, !.len = w1.len,
                                !.liquidateList = w1.liquidateList, !.panic = w1.panic,
                                !.idx = @ + 1, !.pc = "status"]
    /\ UNCHANGED <<mgrVars, posVars, marginVars, th, locks>>

\* the loop is over: the call stores the slice and returns
ScanEnd ==
    /\ scan.phase = "scan" /\ scan.pc = "status" /\ ~scan.panic
    /\ scan.idx > Len(scan.backing)
    /\ container' = [container EXCEPT ![scan.symbol] = SubSeq(scan.backing, 1, scan.len)]
    /\ scan' = [scan EXCEPT !.phase = "done"]
    /\ UNCHANGED <<heap, userPositions, mode, posVars, marginVars, th, locks>>

\* one successful trade runs while the scan is under way
RaceTrade ==
    \E t \in Trades :
        LET r == TradeApply(Here, t)
        IN  /\ scan.phase = "scan" /\ scan.trade = NoTrade
            /\ t.op = "add" => DelegatesToAdd(Here, t)
            /\ r.err = "nil"
            /\ WithinBounds(r)
            /\ heap' = r.heap /\ userPositions' = r.userPositions
            /\ mode' = r.mode /\ container' = r.container
            /\ scan' = [scan EXCEPT !.trade = t]
            /\ UNCHANGED <<posVars, marginVars, th, locks>>

RaceNext ==
    \/ RaceOpenPosition
    \/ RaceSetPositionMode
    \/ ScanBegin
    \/ ScanStatus
    \/ ScanUpdate
    \/ ScanClean
    \/ ScanEnd
    \/ RaceTrade

RaceSpec == Init /\ [][RaceNext]_vars

\* ---- a writer goroutine calling UpdateMarkPrice and a reader goroutine
\* calling GetMarginRatio and IsLiquidatable on the Position pos.  th is the
\* position's sync.RWMutex and the reader's place: readers hold the lock for
\* reading; writer is "waiting" from the moment Lock is called, which makes
\* every later RLock wait, and "holding" once the readers have left.

ThOpen == th = ThreadsIdle /\ PosOpen

ThStarted == pos.Status = PositionNormal /\ ~DIsZero(pos.Size) /\ ~th.aborted

\* UpdateMarkPrice: `p.mu.Lock()` is called
WriterLock ==
    /\ ThStarted /\ th.writer = "none"
    /\ th' = [th EXCEPT !.writer = "waiting"]
    /\ UNCHANGED <<mgrVars, posVars, marginVars, scan, locks>>

\* `p.mu.Lock()` returns
WriterAcquire ==
    /\ th.writer = "waiting" /\ th.readers = 0
    /\ th' = [th EXCEPT !.writer = "holding"]
    /\ UNCHANGED <<mgrVars, posVars, marginVars, scan, locks>>

\* the body of UpdateMarkPrice and the deferred Unlock
WriterUpdate ==
    \E price \in MarkPrices :
        /\ th.writer = "holding"
        /\ pos' = UpdateMarkPrice(pos, price)
        /\ th' = [th EXCEPT !.writer = "none"]
        /\ UNCHANGED <<mgrVars, posTrades, posReturned, marginVars, scan, locks>>

\* GetMarginRatio: `p.mu.RLock()`
ReaderRatioEnter ==
    /\ ThStarted /\ th.rpc = "idle" /\ th.writer = "none"
    /\ th' = [th EXCEPT !.readers = @ + 1, !.rpc = "ratio"]
    /\ UNCHANGED <<mgrVars, posVars, marginVars, scan, locks>>

\* the body of GetMarginRatio and the deferred RUnlock
ReaderRatioReturn ==
    /\ th.rpc = "ratio"
    /\ th' = [th EXCEPT !.readers = @ - 1, !.rpc = "idle",
                        !.aborted = GetMarginRatioPanics(pos)]
    /\ UNCHANGED <<mgrVars, posVars, marginVars, scan, locks>>

\* IsLiquidatable: `p.mu.RLock()` and the test of status and size, up to the
\* call of p.GetMarginRatio()
ReaderLiquidatableEnter ==
    /\ ThStarted /\ th.rpc = "idle" /\ th.writer = "none"
    /\ th' = [th EXCEPT !.readers = @ + 1, !.rpc = "liquidatable"]
    /\ UNCHANGED <<mgrVars, posVars, marginVars, scan, locks>>

\* IsLiquidatable from the `p.mu.RLock()` inside its GetMarginRatio call to
\* its return; a panic ends the program
ReaderLiquidatableReturn ==
    /\ th.rpc = "liquidatable" /\ th.writer = "none"
    /\ th' = [th EXCEPT !.readers = @ - 1, !.rpc = "idle",
                        !.aborted = IsLiquidatableOutcome(pos) = "panic"]
    /\ UNCHANGED <<mgrVars, posVars, marginVars, scan, locks>>

LockNext ==
    \/ ThOpen
    \/ WriterLock
    \/ WriterAcquire
    \/ WriterUpdate
    \/ ReaderRatioEnter
    \/ ReaderRatioReturn
    \/ ReaderLiquidatableEnter
    \/ ReaderLiquidatableReturn

LockSpec == Init /\ [][LockNext]_vars


\* ---- goroutines calling the operations of the PositionManager and of the
\* MarginSystem at the same time.  Each operation is the sequence of its
\* calls on the mutexes, in program order, with its accesses of the manager's
\* maps in between.  mu names the mutex: "pm" is PositionManager.mu,
\* "bucket" the AtomicPositions.mutex of the symbol, "position" the
\* Position.mu of the user's position, "ms" MarginSystem.mu, "account" the
\* MarginAccount.mu; "read" and "write" are accesses of pm.userPositions and
\* pm.mode.

Step(call, mu) == [call |-> call, mu |-> mu]

\* OpenPosition on a key without an open position: the maps are read and
\* written under pm.mu, the new Position (whose own mutex nobody else can
\* reach yet) is appended to the bucket
OpenPositionOpenLocks ==
    <<Step("Lock", "pm"), Step("read", "maps"), Step("write", "maps"),
      Step("Lock", "bucket"), Step("Unlock", "bucket"), Step("Unlock", "pm")>>

\* OpenPosition on a key with an open position: Position.Add under pm.mu
OpenPositionAddLocks ==
    <<Step("Lock", "pm"), Step("read", "maps"),
      Step("Lock", "position"), Step("Unlock", "position"), Step("Unlock", "pm")>>

\* ClosePosition and ReducePosition: GetPosition, then Position.Close or
\* Reduce, then pm.mode[userID] and pm.userPositions[positionKey]
ClosePositionLocks ==
    <<Step("RLock", "pm"), Step("read", "maps"), Step("RUnlock", "pm"),
      Step("Lock", "position"), Step("Unlock", "position"), Step("read", "maps")>>

\* UpdateMarkPrices with the bucket's mutex taken for reading of the maps
\* too: the order reversed
UpdateMarkPricesLocks_ManagerInside ==
    <<Step("Lock", "bucket"), Step("RLock", "pm"), Step("RUnlock", "pm"),
      Step("Lock", "position"), Step("Unlock", "position"), Step("Unlock", "bucket")>>

\* UpdateMarkPrices: the bucket's scan calls Position.UpdateMarkPrice
UpdateMarkPricesLocks ==
    <<Step("Lock", "bucket"), Step("Lock", "position"), Step("Unlock", "position"),
      Step("Unlock", "bucket")>>

\* SetPositionMode
SetPositionModeLocks ==
    <<Step("Lock", "pm"), Step("read", "maps"), Step("write", "maps"), Step("Unlock", "pm")>>

\* UpdatePositionMargin: GetUserPositions reads pm.userPositions
UpdatePositionMarginLocks ==
    <<Step("Lock", "ms"), Step("read", "maps"),
      Step("Lock", "account"), Step("Unlock", "account"), Step("Unlock", "ms")>>

\* Deposit and Withdraw: GetAccount, then the account's method
DepositLocks ==
    <<Step("RLock", "ms"), Step("RUnlock", "ms"), Step("Lock", "account"), Step("Unlock", "account")>>

WithdrawLocks ==
    <<Step("RLock", "ms"), Step("RUnlock", "ms"), Step("Lock", "account"), Step("Unlock", "account")>>

\* FreezeOrderMargin and UnfreezeOrderMargin: the account's method inside
\* ms.mu held for reading
FreezeOrderMarginLocks ==
    <<Step("RLock", "ms"), Step("Lock", "account"), Step("Unlock", "account"), Step("RUnlock", "ms")>>

UnfreezeOrderMarginLocks ==
    <<Step("RLock", "ms"), Step("Lock", "account"), Step("Unlock", "account"), Step("RUnlock", "ms")>>

Operations ==
    {"OpenPosition/Open", "OpenPosition/Add", "ClosePosition", "UpdateMarkPrices",
     "SetPositionMode", "UpdatePositionMargin", "Deposit", "Withdraw",
     "FreezeOrderMargin", "UnfreezeOrderMargin"}

LocksOf(op) ==
    CASE op = "OpenPosition/Open" -> OpenPositionOpenLocks
      [] op = "OpenPosition/Add" -> OpenPositionAddLocks
      [] op = "ClosePosition" -> ClosePositionLocks
      [] op = "UpdateMarkPrices" -> UpdateMarkPricesLocks
      [] op = "SetPositionMode" -> SetPositionModeLocks
      [] op = "UpdatePositionMargin" -> UpdatePositionMarginLocks
      [] op = "Deposit" -> DepositLocks
      [] op = "Withdraw" -> WithdrawLocks
      [] op = "FreezeOrderMargin" -> FreezeOrderMarginLocks
      [] op = "UnfreezeOrderMargin" -> UnfreezeOrderMarginLocks
      [] OTHER -> <<>>

\* the step goroutine g is at: its next call
NextStep(g) ==
    IF locks[g].pc < Len(LocksOf(locks[g].op))
    THEN LocksOf(locks[g].op)[locks[g].pc + 1]
    ELSE Step("return", "")

\* g holds mu, for writing (call "Lock") or for reading (call "RLock")
Holds(g, call, mu) ==
    LET prog == LocksOf(locks[g].op)
    IN  \E i \in 1..locks[g].pc :
            /\ prog[i] = Step(call, mu)
            /\ \A j \in (i + 1)..locks[g].pc : prog[j].mu # mu

\* g is inside the call of Lock or RLock on mu
Requests(g, call, mu) == locks[g].waiting /\ NextStep(g) = Step(call, mu)

\* sync.RWMutex: Lock returns when nobody holds the mutex; RLock returns when
\* nobody holds it for writing and no Lock call is pending
Granted(g) ==
    LET mu == NextStep(g).mu
        others == Goroutines \ {g}
    IN  IF NextStep(g).call = "Lock"
        THEN \A o \in others : ~Holds(o, "Lock", mu) /\ ~Holds(o, "RLock", mu)
        ELSE \A o \in others : ~Holds(o, "Lock", mu) /\ ~Requests(o, "Lock", mu)

OrderBecomes(g, r) ==
    /\ locks' = [locks EXCEPT ![g] = r]
    /\ UNCHANGED <<mgrVars, posVars, marginVars, scan, th>>

\* a goroutine calls an operation
GoCall ==
    \E g \in Goroutines, op \in Operations :
        /\ locks[g].op = "idle"
        /\ OrderBecomes(g, [op |-> op, pc |-> 0, waiting |-> FALSE])

\* it calls Lock or RLock
GoRequest ==
    \E g \in Goroutines :
        /\ ~locks[g].waiting
        /\ NextStep(g).call \in {"Lock", "RLock"}
        /\ OrderBecomes(g, [locks[g] EXCEPT !.waiting = TRUE])

\* the call returns
GoAcquire ==
    \E g \in Goroutines :
        /\ locks[g].waiting
        /\ Granted(g)
        /\ OrderBecomes(g, [locks[g] EXCEPT !.waiting = FALSE, !.pc = @ + 1])

\* it calls Unlock or RUnlock
GoRelease ==
    \E g \in Goroutines :
        /\ NextStep(g).call \in {"Unlock", "RUnlock"}
        /\ OrderBecomes(g, [locks[g] EXCEPT !.pc = @ + 1])

\* it reads or writes the manager's maps
GoAccess ==
    \E g \in Goroutines :
        /\ NextStep(g).call \in {"read", "write"}
        /\ OrderBecomes(g, [locks[g] EXCEPT !.pc = @ + 1])

\* the operation returns
GoReturn ==
    \E g \in Goroutines :
        /\ locks[g].op # "idle"
        /\ NextStep(g).call = "return"
        /\ OrderBecomes(g, GoroutineIdle)

OrderNext ==
    \/ GoCall
    \/ GoRequest
    \/ GoAcquire
    \/ GoRelease
    \/ GoAccess
    \/ GoReturn

OrderSpec == Init /\ [][OrderNext]_vars


\* ---- positions under liquidation.  No code of the repository assigns
\* PositionLiquidating; the Status field is exported, and a position gets
\* the status when the caller that was handed it by OpenPosition (the
\* liquidation engine) sets the field.  That assignment is the input here;
\* the trades of two users on one symbol follow it.

CallerMarksLiquidating ==
    \E id \in DOMAIN heap :
        /\ heap[id].Status = PositionNormal
        /\ DGreaterThan(heap[id].Size, Zero)
        /\ heap' = [heap EXCEPT ![id].Status = PositionLiquidating]
        /\ UNCHANGED <<userPositions, mode, container, posVars, marginVars, concVars>>

LiqOpenPosition ==
    \E userID \in UserIDs, symbol \in MarginSymbols, side \in PositionSides,
       price \in TradePrices, size \in MarginSizes, leverage \in Leverages :
        LET r == OpenPosition(Here, ISOLATED, userID, symbol, side, price, size, leverage)
        IN  WithinBounds(r) /\ Becomes(r)

LiqReducePosition ==
    \E userID \in UserIDs, symbol \in MarginSymbols, side \in PositionSides,
       price \in TradePrices, size \in MarginSizes :
        Becomes(ReducePosition(Here, userID, symbol, side, price, size))

LiqClosePosition ==
    \E userID \in UserIDs, symbol \in MarginSymbols, side \in PositionSides,
       price \in TradePrices :
        Becomes(ClosePosition(Here, userID, symbol, side, price))

LiquidatingNext ==
    \/ CallerMarksLiquidating
    \/ LiqOpenPosition
    \/ LiqReducePosition
    \/ LiqClosePosition

LiquidatingSpec == Init /\ [][LiquidatingNext]_vars


\* ------------------------------------------------------------------ claims

\* the ids a bucket or a returned list holds
Ids(seq) == {seq[i] : i \in 1..Len(seq)}

\* how often id occurs in a bucket
Occurrences(seq, id) == Cardinality({i \in 1..Len(seq) : seq[i] = id})

\* C1: after UpdateMarkPrices returns for a symbol, every position still in
\* the symbol's bucket is Normal and not liquidatable, and every returned
\* position is Liquidating.
C1_BucketHoldsOnlyHealthyPositions ==
    \A symbol \in RegisteredSymbols, price \in MarkPrices :
        LET r == UpdateMarkPrices(Here, symbol, price)
        IN  /\ r.err = "nil"
            /\ \A id \in Ids(r.container[symbol]) :
                   /\ r.heap[id].Status = PositionNormal
                   /\ IsLiquidatableOutcome(r.heap[id]) = "false"
            /\ \A id \in Ids(r.liquidateList) : r.heap[id].Status = PositionLiquidating

\* C2: for a bucket of Normal positions and every price, the bucket's
\* UpdateMarkPrice completes, returns exactly the positions liquidatable at
\* the new price, each once, and shortens the bucket by the number returned.
C2_ReturnsExactlyTheLiquidatable ==
    \A symbol \in RegisteredSymbols, price \in MarkPrices :
        LET slice == container[symbol]
            r == BucketUpdateMarkPrice(slice, heap, price)
            liquidatable == {id \in Ids(slice) :
                                IsLiquidatableOutcome(UpdateMarkPrice(heap[id], price)) = "true"}
        IN  (\A id \in Ids(slice) : heap[id].Status = PositionNormal)
            => /\ ~r.panic
               /\ Ids(r.liquidateList) = liquidatable
               /\ Len(r.liquidateList) = Cardinality(liquidatable)
               /\ Len(r.slice) = Len(slice) - Len(r.liquidateList)

\* C3: every live position (status not Closed) is referenced by exactly one
\* entry of its user's position map and occurs exactly once in exactly one
\* symbol bucket, the bucket of its own symbol.
C3_LivePositionIndexedOnce ==
    \A id \in 1..Len(heap) :
        heap[id].Status # PositionClosed
        => /\ heap[id].UserID \in DOMAIN userPositions
           /\ Cardinality({k \in DOMAIN userPositions[heap[id].UserID] :
                              userPositions[heap[id].UserID][k] = id}) = 1
           /\ heap[id].Symbol \in DOMAIN container
           /\ \A s \in DOMAIN container :
                  Occurrences(container[s], id) = IF s = heap[id].Symbol THEN 1 ELSE 0

\* the call that left r from st closed the position it returns, and the
\* user's map, GetPosition and GetUserPositions no longer know the position
C4_Removed(st, r, userID, symbol, side) ==
    (r.err = "nil" /\ DIsZero(r.heap[r.ret].Size))
    => /\ getPositionKey(symbol, side, st.mode[userID]) \notin DOMAIN r.userPositions[userID]
       /\ GetPosition(StateOf(r), userID, symbol, side).err = "position does not exist"
       /\ r.ret \notin GetUserPositions(StateOf(r), userID).ret

\* C4: after a successful ClosePosition, or a successful ReducePosition that
\* brings the size to zero, the user's map holds no entry under the position
\* key: a following GetPosition fails with position-not-found and
\* GetUserPositions no longer lists the position.
C4_ClosedPositionLeavesUserMap ==
    \A userID \in UserIDs, symbol \in AllSymbols, side \in PositionSides, price \in TradePrices :
        /\ C4_Removed(Here, ClosePosition(Here, userID, symbol, side, price), userID, symbol, side)
        /\ \A size \in TradeSizes :
               C4_Removed(Here, ReducePosition(Here, userID, symbol, side, price, size),
                          userID, symbol, side)

\* the user's map holds a position of size > epsilon under key
C5_Held(st, userID, key) ==
    /\ userID \in DOMAIN st.userPositions
    /\ key \in DOMAIN st.userPositions[userID]
    /\ DGreaterThan(st.heap[st.userPositions[userID][key]].Size,
                    ZeroSize(st.heap[st.userPositions[userID][key]]))

C6_UnknownSymbolLeavesStateUnchanged ==
    \A userID \in UserIDs, symbol \in AllSymbols \ DOMAIN container, side \in PositionSides,
       price \in TradePrices, size \in TradeSizes, leverage \in Leverages :
        LET r == OpenPosition(Here, ISOLATED, userID, symbol, side, price, size, leverage)
        IN  /\ r.err # "nil"
            /\ StateOf(r) = Here

\* the user owns a position of size > epsilon
C7_HoldsOpen(userID) ==
    \E id \in 1..Len(heap) :
        /\ heap[id].UserID = userID
        /\ DGreaterThan(heap[id].Size, ZeroSize(heap[id]))

\* C7: SetPositionMode fails and leaves the recorded mode unchanged whenever
\* the user holds a position of size > epsilon; it succeeds and records the
\* new mode whenever the user has no open position, also after all of the
\* user's positions were closed.
C7_ModeSwitchOnlyWithoutOpenPosition ==
    \A userID \in UserIDs, m \in PositionModes :
        LET r == SetPositionMode(Here, userID, m)
        IN  IF C7_HoldsOpen(userID)
            THEN r.err # "nil" /\ StateOf(r) = Here
            ELSE /\ r.err = "nil"
                 /\ r.mode[userID] = m
                 /\ \A u \in DOMAIN mode \ {userID} : r.mode[u] = mode[u]
                 /\ r.heap = heap /\ r.userPositions = userPositions
                 /\ r.container = container

\* C8: for every user, also one that never opened a position, once
\* SetPositionMode(user, Hedge) has succeeded, OpenPosition LONG followed by
\* OpenPosition SHORT on one symbol yields two distinct positions with sides
\* LONG and SHORT.
C8_HedgeModeKeepsSidesApart ==
    \A userID \in UserIDs, symbol \in RegisteredSymbols, price \in TradePrices,
       size \in TradeSizes, leverage \in Leverages :
        LET m == SetPositionMode(Here, userID, HedgeMode)
            l == OpenPosition(StateOf(m), ISOLATED, userID, symbol, LONG, price, size, leverage)
            s == OpenPosition(StateOf(l), ISOLATED, userID, symbol, SHORT, price, size, leverage)
        IN  m.err = "nil"
            => /\ l.err = "nil" /\ s.err = "nil"
               /\ l.ret # s.ret
               /\ s.heap[l.ret].Side = LONG
               /\ s.heap[s.ret].Side = SHORT

\* every Open, Add, Reduce and Close on p fails and leaves p as it is
C9_ClosedRejects(p) ==
    /\ \A side \in PositionSides, price \in PosPrices, size \in TradeSizes,
          leverage \in Leverages :
           LET r == Open(p, side, price, size, leverage) IN r.err # "nil" /\ r.p = p
    /\ \A price \in PosPrices, size \in TradeSizes :
           /\ LET r == Add(p, price, size) IN r.err # "nil" /\ r.p = p
           /\ LET r == Reduce(p, price, size) IN r.err # "nil" /\ r.p = p
    /\ \A price \in PosPrices :
           LET r == Close(p, price) IN r.err # "nil" /\ r.p = p

\* C9: Closed is terminal. Every Open, Add, Reduce and Close on a Closed
\* position fails, and a Closed position stays Closed in every later state.
C9_ClosedIsTerminal ==
    /\ [](pos.Status = PositionClosed => C9_ClosedRejects(pos))
    /\ [][pos.Status = PositionClosed => pos'.Status = PositionClosed]_vars

\* a position that was opened and then closed, with a mark price applied later
C9_Witness ==
    /\ pos.Status = PositionClosed
    /\ pos.Side # 0
    /\ posTrades >= 1
    /\ ~DIsZero(pos.MarkPrice)

C11_ClosedHoldsNothing ==
    pos.Status = PositionClosed =>
        /\ DIsZero(pos.Size)
        /\ DIsZero(pos.InitialMargin)
        /\ DIsZero(pos.MaintenanceMargin)
        /\ DIsZero(DMul(pos.MarkPrice, pos.Size))

\* a marked position with margin was fully reduced; its entry price is retained
C11_Witness ==
    /\ pos.Status = PositionClosed
    /\ ~DIsZero(pos.EntryPrice)
    /\ ~DIsZero(pos.MarkPrice)
    /\ posTrades = 1

C12_SecondOpenRejected(p) ==
    \A side \in PositionSides, price \in PosPrices, size \in TradeSizes \cup {0}, leverage \in Leverages :
        Open(p, side, price, size, leverage) =
            [p |-> p, err |-> "position already exists, can not open again", pnl |-> Zero]

\* the sides of the Position objects a manager state st holds survive every
\* further OpenPosition, which in OneWay mode hands back the position held
C12_ManagerKeepsSides(st) ==
    \A userID \in UserIDs, symbol \in RegisteredSymbols, side \in PositionSides,
       price \in TradePrices, size \in TradeSizes, leverage \in Leverages :
        LET r1 == OpenPosition(st, ISOLATED, userID, symbol, side, price, size, leverage)
            r2 == OpenPosition(StateOf(r1), ISOLATED, userID, symbol, -side, price, size, leverage)
        IN  /\ \A id \in DOMAIN st.heap : r1.heap[id].Side = st.heap[id].Side
            /\ (r1.err = "nil" /\ r1.mode[userID] = OneWayMode) =>
                   /\ r2.err = "nil"
                   /\ r2.ret = r1.ret
                   /\ r2.heap[r1.ret].Side = r1.heap[r1.ret].Side
                   /\ DGreaterThan(r2.heap[r1.ret].Size, r1.heap[r1.ret].Size)

\* C12, as stated: once Open has succeeded the side never changes under any
\* sequence of Open, Add, Reduce, Close, UpdateMarkPrice or OpenPosition calls,
\* and a second Open on an open or Closed position fails with AlreadyOpen
\* without modifying it.
C12_SideImmutableOnceOpenSucceeded ==
    /\ [][pos.Side # 0 => pos'.Side = pos.Side]_vars
    /\ [](C12_ManagerKeepsSides(Here))
    /\ []((~DIsZero(pos.Size) \/ pos.Status = PositionClosed) => C12_SecondOpenRejected(pos))

\* C12, amended: once Open has succeeded with a size other than zero the side
\* never changes under any sequence of Open, Add, Reduce, Close,
\* UpdateMarkPrice or OpenPosition calls, and a second Open on an open or
\* Closed position fails with AlreadyOpen without modifying it.
C12_SideImmutableOncePositionOpen ==
    /\ [][(pos.Side # 0 /\ (~DIsZero(pos.Size) \/ pos.Status = PositionClosed))
              => pos'.Side = pos.Side]_vars
    /\ [](C12_ManagerKeepsSides(Here))
    /\ []((~DIsZero(pos.Size) \/ pos.Status = PositionClosed) => C12_SecondOpenRejected(pos))

\* an open position on which Open with the other side is attempted, after a
\* trade, and a one-way user is handed back the LONG held when opening SHORT
C12_Witness ==
    /\ pos.Side = LONG
    /\ pos.Status = PositionNormal
    /\ ~DIsZero(pos.Size)
    /\ posTrades = 2
    /\ Open(pos, SHORT, 1, 1, 2).err # "nil"
    /\ LET r1 == OpenPosition(Here, ISOLATED, "alice", "BTC", LONG, 2, 1, 2)
           r2 == OpenPosition(StateOf(r1), ISOLATED, "alice", "BTC", SHORT, 2, 1, 2)
       IN  r2.ret = r1.ret /\ r2.heap[r2.ret].Side = LONG

\* what C13 says of the position q that a successful Open(side, price, size, leverage) leaves
C13_Opened(q, side, price, size, leverage) ==
    /\ q.Side = side
    /\ q.Size = NewFromInt(size)
    /\ q.Leverage = leverage
    /\ q.EntryPrice = NewFromInt(price)
    /\ q.MarkPrice = NewFromInt(price)
    /\ q.InitialMargin = DDiv(NewFromInt(price * size), NewFromInt(leverage))
    /\ q.MaintenanceMargin = calculateMaintenanceMargin(NewFromInt(price * size))
    /\ q.LiquidationPrice = CalculateLiquidationPrice(q).ret

\* C13: Open on a fresh Normal position with size 0 sets side, size and
\* leverage, sets entryPrice = markPrice = price (so positionValue is
\* price*size), and derives initialMargin = price*size/leverage,
\* maintenanceMargin from the tier table and liquidationPrice; LONG @ 50000,
\* size 1, leverage 10 gives 5000, 200 and 45200.
C13_OpenSetsAndDerives ==
    /\ (pos.Status = PositionNormal /\ DIsZero(pos.Size)) =>
           \A side \in PositionSides, price \in PosPrices, size \in TradeSizes, leverage \in Leverages :
               LET r == Open(pos, side, price, size, leverage)
               IN  r.err = "nil" /\ C13_Opened(r.p, side, price, size, leverage)
    /\ LET q == Open(NewPosition(1, "alice", "BTC", ISOLATED), LONG, 50000, 1, 10).p
       IN  /\ q.InitialMargin = NewFromInt(5000)
           /\ q.MaintenanceMargin = NewFromInt(200)
           /\ q.LiquidationPrice = NewFromInt(45200)

C14_MarginIdentity(p) ==
    /\ p.Leverage # 0
    /\ p.InitialMargin = DDiv(DMul(p.EntryPrice, p.Size), NewFromInt(p.Leverage))

C15_AddAveragesAndRefreshesMark ==
    (pos.Status = PositionNormal /\ DGreaterThan(pos.Size, Zero)) =>
        \A price \in PosPrices, size \in TradeSizes :
            LET r == Add(pos, price, size)
                total == DAdd(pos.Size, NewFromInt(size))
            IN  /\ r.err = "nil"
                /\ r.p.Size = total
                /\ r.p.EntryPrice = DDiv(DAdd(DMul(pos.EntryPrice, pos.Size),
                                              DMul(NewFromInt(price), NewFromInt(size))), total)
                /\ r.p.MarkPrice = NewFromInt(price)
                /\ r.p.RealizedPnL = pos.RealizedPnL

\* the delta C16 states for reducing p by the decimal s at price
C16_Delta(p, price, s) ==
    IF p.Side = LONG
    THEN DMul(DSub(NewFromInt(price), p.EntryPrice), s)
    ELSE DMul(DSub(p.EntryPrice, NewFromInt(price)), s)

\* C16: conservation of PnL. Through any interleaving of Add and
\* Reduce/Close, each successful Reduce(price, s) returns
\* (price - entryPrice)*s for LONG, (entryPrice - price)*s for SHORT at the
\* average entry of that moment, decrements size by s and adds exactly that
\* delta to realizedPnL, so realizedPnL is always the sum of the returned
\* deltas; Open, Add and UpdateMarkPrice never change realizedPnL.
C16_RealizedIsSumOfReturned ==
    /\ pos.RealizedPnL = posReturned
    /\ \A price \in PosPrices, size \in TradeSizes :
           LET r == Reduce(pos, price, size)
           IN  r.err = "nil" =>
                   /\ r.pnl = C16_Delta(pos, price, NewFromInt(size))
                   /\ r.p.Size = DSub(pos.Size, NewFromInt(size))
                   /\ r.p.RealizedPnL = DAdd(pos.RealizedPnL, r.pnl)
    /\ \A price \in PosPrices :
           LET r == Close(pos, price)
           IN  r.err = "nil" =>
                   /\ r.pnl = C16_Delta(pos, price, DSub(pos.Size, r.p.Size))
                   /\ r.p.RealizedPnL = DAdd(pos.RealizedPnL, r.pnl)
    /\ \A side \in PositionSides, price \in PosPrices, size \in TradeSizes, leverage \in Leverages :
           Open(pos, side, price, size, leverage).p.RealizedPnL = pos.RealizedPnL
    /\ \A price \in PosPrices, size \in TradeSizes :
           /\ Add(pos, price, size).p.RealizedPnL = pos.RealizedPnL
           /\ UpdateMarkPrice(pos, price).RealizedPnL = pos.RealizedPnL

\* a position fully reduced in two trades with a realized profit or loss
C16_Witness ==
    /\ pos.Status = PositionClosed
    /\ posTrades = 2
    /\ ~DIsZero(pos.RealizedPnL)
    /\ pos.RealizedPnL = posReturned

\* C17: for every Normal position with size > 0 and every price, Close(price)
\* is equivalent to Reduce(price, current size): the same realized delta, the
\* same resulting fields, and the position always left Closed with size 0.
C17_CloseIsFullReduce ==
    (pos.Status = PositionNormal /\ DGreaterThan(pos.Size, Zero)) =>
        \A price \in PosPrices :
            LET r == Close(pos, price)
            IN  /\ r = ReduceBy(pos, price, InexactFloat64(pos.Size))
                /\ r.err = "nil"
                /\ r.pnl = C16_Delta(pos, price, pos.Size)
                /\ r.p.Status = PositionClosed
                /\ DIsZero(r.p.Size)

\* the mark price of p has reached its stored liquidation price
C18_ReachedLiquidationPrice(p) ==
    IF p.Side = LONG THEN DLessThanOrEqual(p.MarkPrice, p.LiquidationPrice)
    ELSE DLessThanOrEqual(p.LiquidationPrice, p.MarkPrice)

\* C18: for a Normal ISOLATED position with size > 0 and markPrice > 0,
\* IsLiquidatable() is true exactly when the mark price has reached the
\* position's liquidation price (markPrice <= liquidationPrice for LONG,
\* >= for SHORT); LONG @ 50000, size 1, leverage 100 has liquidationPrice
\* 49700, is liquidatable after UpdateMarkPrice(49700) and is not just above.
C18_LiquidatableIffMarkReachedLiquidationPrice ==
    /\ (/\ pos.Status = PositionNormal
        /\ pos.MarginMode = ISOLATED
        /\ DGreaterThan(pos.Size, Zero)
        /\ DGreaterThan(pos.MarkPrice, Zero))
           => (IsLiquidatable(pos) <=> C18_ReachedLiquidationPrice(pos))
    /\ LET q == Open(NewPosition(1, "alice", "BTC", ISOLATED), LONG, 50000, 1, 100).p
       IN  /\ q.LiquidationPrice = NewFromInt(49700)
           /\ IsLiquidatable(UpdateMarkPrice(q, 49700))
           /\ ~IsLiquidatable(UpdateMarkPrice(q, 49701))

\* C19: IsLiquidatable() returns false, without aborting, whenever status is
\* not Normal, size is 0 or markPrice is 0 (an open position whose mark price
\* is 0 or was never set included); in all other states it returns true iff
\* marginRatio <= 100 * maintenanceMargin / positionValue.
C19_IsLiquidatableTotal ==
    LET outcome == IsLiquidatableOutcome(pos)
    IN  /\ outcome # "panic"
        /\ IF pos.Status # PositionNormal \/ DIsZero(pos.Size) \/ DIsZero(pos.MarkPrice)
           THEN outcome = "false"
           ELSE outcome = "true" <=>
                    DLessThanOrEqual(GetMarginRatio(pos),
                        DDiv(DMul(NewFromInt(100), pos.MaintenanceMargin),
                             DMul(pos.MarkPrice, pos.Size)))

\* the sentinel, or 100 * (initialMargin + unrealizedPnL) / (markPrice * size)
C20_Formula(p) ==
    IF DIsZero(p.Size) \/ DIsZero(p.MarkPrice) THEN NewFromInt(100)
    ELSE DDiv(DMul(NewFromInt(100), DAdd(p.InitialMargin, p.UnrealizedPnL)),
              DMul(p.MarkPrice, p.Size))

\* LONG @ 50000, size 1, leverage 10, right after Open
C20_Example == Open(NewPosition(1, "alice", "BTC", ISOLATED), LONG, 50000, 1, 10).p

C20_Between(lo, x, hi) == DGreaterThan(x, lo) /\ DGreaterThan(hi, x)

\* about 11.76 after UpdateMarkPrice(51000), below 10 after UpdateMarkPrice(48000)
C20_ExampleMarked ==
    /\ C20_Between(Rat(1176, 100), GetMarginRatio(UpdateMarkPrice(C20_Example, 51000)), Rat(1177, 100))
    /\ DGreaterThan(NewFromInt(10), GetMarginRatio(UpdateMarkPrice(C20_Example, 48000)))

C21_Distance(p, size) ==
    LET q == Open(NewPosition(1, "alice", "BTC", ISOLATED), p.Side, p.EntryPrice[1], size, p.Leverage).p
        liq == CalculateLiquidationPrice(q).ret
    IN  IF DGreaterThan(liq, q.EntryPrice) THEN DSub(liq, q.EntryPrice) ELSE DSub(q.EntryPrice, liq)

\* C21: liquidation price monotonicity. With side, entryPrice and leverage
\* fixed, for any two sizes s1 < s2 the distance |liquidationPrice -
\* entryPrice| computed at s2 is never larger than the distance computed at
\* s1, over the whole default tier table.
C21_LiquidationDistanceShrinksWithSize ==
    (pos.Status = PositionNormal /\ DGreaterThan(pos.Size, Zero)) =>
        \A s1 \in TierSizes :
            s1 < pos.Size[1] =>
                DLessThanOrEqual(C21_Distance(pos, pos.Size[1]), C21_Distance(pos, s1))

\* the smaller of two numbers
DMin(a, b) == IF DGreaterThan(a, b) THEN b ELSE a

\* C22: after every mutation of a margin account, availableBalance +
\* frozenBalance = balance - positionMargin + min(0, unrealizedPnL)
C22_LedgerIdentity ==
    DAdd(account.AvailableBalance, account.FrozenBalance)
        = DAdd(DSub(account.Balance, account.PositionMargin), DMin(Zero, account.UnrealizedPnL))

\* C23: in every reachable state of every account, availableBalance,
\* frozenBalance, positionMargin and orderMargin are all >= 0
C23_LedgerNonNegative ==
    \A u \in DOMAIN accounts :
        /\ DLessThanOrEqual(Zero, accounts[u].AvailableBalance)
        /\ DLessThanOrEqual(Zero, accounts[u].FrozenBalance)
        /\ DLessThanOrEqual(Zero, accounts[u].PositionMargin)
        /\ DLessThanOrEqual(Zero, accounts[u].OrderMargin)

\* an account whose whole balance is frozen, with margin tied up in positions
\* that are losing money
C23_Witness ==
    /\ "alice" \in DOMAIN accounts
    /\ DIsZero(accounts["alice"].AvailableBalance)
    /\ DGreaterThan(accounts["alice"].FrozenBalance, Zero)
    /\ DGreaterThan(accounts["alice"].PositionMargin, Zero)
    /\ DGreaterThan(Zero, accounts["alice"].UnrealizedPnL)

\* a = b as numbers
DEqual(a, b) == a[1] * b[2] = b[1] * a[2]

\* the x with 0 < x <= availableBalance
C24_Amounts == {x \in AccountAmounts : ~DGreaterThan(NewFromInt(x), account.AvailableBalance)}

\* the account after FreezeOrderMargin(x), and after UnFreezeOrderMargin(x) on that
C24_Frozen(x) == MarginAccount_FreezeOrderMargin(account, NewFromInt(x))
C24_Unfrozen(x) == MarginAccount_UnFreezeOrderMargin(C24_Frozen(x).a, NewFromInt(x))

\* C24 (as claimed): for 0 < x <= availableBalance, FreezeOrderMargin(x)
\* succeeds and moves exactly x from availableBalance into frozenBalance and
\* adds x to orderMargin, balance unchanged; UnFreezeOrderMargin(x) then
\* succeeds and restores the four fields to their values before the Freeze
C24_FreezeUnfreezeInverse ==
    \A x \in C24_Amounts :
        LET f == C24_Frozen(x)
            u == C24_Unfrozen(x)
        IN  /\ f.err = "nil"
            /\ DEqual(f.a.AvailableBalance, DSub(account.AvailableBalance, NewFromInt(x)))
            /\ DEqual(f.a.FrozenBalance, DAdd(account.FrozenBalance, NewFromInt(x)))
            /\ DEqual(f.a.OrderMargin, DAdd(account.OrderMargin, NewFromInt(x)))
            /\ f.a.Balance = account.Balance
            /\ u.err = "nil"
            /\ u.a.Balance = account.Balance
            /\ u.a.AvailableBalance = account.AvailableBalance
            /\ u.a.FrozenBalance = account.FrozenBalance
            /\ u.a.OrderMargin = account.OrderMargin

\* the three results of FreezeOrderMargin(x) are float64 values: no rounding
C24_Exact(x) ==
    /\ DEqual(C24_Frozen(x).a.AvailableBalance, DSub(account.AvailableBalance, NewFromInt(x)))
    /\ DEqual(C24_Frozen(x).a.FrozenBalance, DAdd(account.FrozenBalance, NewFromInt(x)))
    /\ DEqual(C24_Frozen(x).a.OrderMargin, DAdd(account.OrderMargin, NewFromInt(x)))

\* C24 (amended): for 0 < x <= availableBalance, FreezeOrderMargin(x) succeeds
\* and sets availableBalance, frozenBalance and orderMargin to the float64
\* results of availableBalance - x, frozenBalance + x and orderMargin + x,
\* balance unchanged; UnFreezeOrderMargin(x) then succeeds, leaves balance
\* unchanged, and restores the three fields to their values before the
\* Freeze whenever those three results were exact
C24_FreezeUnfreezeInverseWhenExact ==
    \A x \in C24_Amounts :
        LET f == C24_Frozen(x)
            u == C24_Unfrozen(x)
        IN  /\ f.err = "nil"
            /\ f.a.AvailableBalance = FloatSub(account.AvailableBalance, NewFromInt(x))
            /\ f.a.FrozenBalance = FloatAdd(account.FrozenBalance, NewFromInt(x))
            /\ f.a.OrderMargin = FloatAdd(account.OrderMargin, NewFromInt(x))
            /\ f.a.Balance = account.Balance
            /\ u.err = "nil"
            /\ u.a.Balance = account.Balance
            /\ C24_Exact(x) =>
                   /\ u.a.AvailableBalance = account.AvailableBalance
                   /\ u.a.FrozenBalance = account.FrozenBalance
                   /\ u.a.OrderMargin = account.OrderMargin

\* an account with money frozen and money available, some x of which freezes
\* without rounding
C24_Witness ==
    /\ DGreaterThan(account.FrozenBalance, Zero)
    /\ \E x \in C24_Amounts : C24_Exact(x)

\* the positions of the user, as the manager lists them, that are not Closed
C25_Live(userID) ==
    {id \in GetUserPositions(Here, userID).ret : heap[id].Status # PositionClosed}

\* the exact sums of initialMargin and of unrealizedPnL over the positions ids
RECURSIVE C25_SumInitialMargin(_)
C25_SumInitialMargin(ids) ==
    IF ids = {} THEN Zero
    ELSE LET id == CHOOSE i \in ids : TRUE
         IN  DAdd(heap[id].InitialMargin, C25_SumInitialMargin(ids \ {id}))

RECURSIVE C25_SumUnrealizedPnL(_)
C25_SumUnrealizedPnL(ids) ==
    IF ids = {} THEN Zero
    ELSE LET id == CHOOSE i \in ids : TRUE
         IN  DAdd(heap[id].UnrealizedPnL, C25_SumUnrealizedPnL(ids \ {id}))

\* C25: when UpdatePositionMargin(user) returns successfully, the account's
\* positionMargin is the sum of initialMargin and its unrealizedPnL the sum
\* of unrealizedPnL over exactly the user's positions that are not Closed
C25_SumsOverOpenPositions ==
    \A userID \in UserIDs :
        \A order \in IterationOrders(GetUserPositions(Here, userID).ret) :
            LET r == UpdatePositionMargin(accounts, Here, userID, order)
            IN  r.err = "nil" =>
                    /\ DEqual(r.accounts[userID].PositionMargin,
                              C25_SumInitialMargin(C25_Live(userID)))
                    /\ DEqual(r.accounts[userID].UnrealizedPnL,
                              C25_SumUnrealizedPnL(C25_Live(userID)))

\* alice's account after an UpdatePositionMargin that met a position closed
\* with an unrealized PnL still on it next to one that is open and losing
C25_Witness ==
    /\ "alice" \in DOMAIN accounts
    /\ "alice" \in DOMAIN userPositions
    /\ \E id \in GetUserPositions(Here, "alice").ret :
           heap[id].Status = PositionClosed /\ ~DIsZero(heap[id].UnrealizedPnL)
    /\ C25_Live("alice") # {}
    /\ DGreaterThan(accounts["alice"].PositionMargin, Zero)
    /\ DEqual(accounts["alice"].PositionMargin, C25_SumInitialMargin(C25_Live("alice")))
    /\ DGreaterThan(Zero, accounts["alice"].UnrealizedPnL)
    /\ DEqual(accounts["alice"].UnrealizedPnL, C25_SumUnrealizedPnL(C25_Live("alice")))

\* balance + unrealizedPnL and positionMargin + orderMargin of the user's account
C26_Equity(userID) == DAdd(accounts[userID].Balance, accounts[userID].UnrealizedPnL)
C26_UsedMargin(userID) == DAdd(accounts[userID].PositionMargin, accounts[userID].OrderMargin)

\* C26: GetMarginLevel(user) returns (balance + unrealizedPnL) / (positionMargin
\* + orderMargin) when positionMargin + orderMargin > 0 and 999 when it is 0;
\* MarginSystem.IsLiquidatable(user) is true iff that level is < 1.0, so never
\* for an account with no used margin
C26_MarginLevelAndLiquidatable ==
    \A userID \in DOMAIN accounts :
        LET l == GetMarginLevel(accounts, userID)
            q == MarginSystem_IsLiquidatable(accounts, userID)
        IN  /\ l.err = "nil" /\ q.err = "nil"
            /\ DGreaterThan(C26_UsedMargin(userID), Zero) =>
                   DEqual(l.ret, InexactFloat64(DDiv(C26_Equity(userID), C26_UsedMargin(userID))))
            /\ DIsZero(C26_UsedMargin(userID)) => l.ret = NewFromInt(999) /\ ~q.ret
            /\ q.ret <=> DGreaterThan(NewFromInt(1), l.ret)

\* an account with used margin whose equity has fallen below it: liquidatable
C26_Witness ==
    /\ "alice" \in DOMAIN accounts
    /\ DGreaterThan(C26_UsedMargin("alice"), Zero)
    /\ DGreaterThan(accounts["alice"].OrderMargin, Zero)
    /\ DGreaterThan(accounts["alice"].PositionMargin, Zero)
    /\ MarginSystem_IsLiquidatable(accounts, "alice").ret

\* C27: every CheckOrderMargin call returns to its caller and leaves the
\* MarginSystem lock released: no state has a call stuck holding ms.mu
C27_CheckOrderMarginReturns == msMu = "free"

\* the manager state after the trade and the scan of a finished race, had
\* the trade run first, and had the scan run first
C28_TradeThenScan ==
    StateOf(UpdateMarkPrices(StateOf(TradeApply(scan.st0, scan.trade)), scan.symbol, scan.price))
C28_ScanThenTrade ==
    StateOf(TradeApply(StateOf(UpdateMarkPrices(scan.st0, scan.symbol, scan.price)), scan.trade))

\* C28: a trade and an UpdateMarkPrices call for the same symbol that run
\* concurrently are serialized: the state they leave is the state one of the
\* two sequential orders leaves
C28_Serialized ==
    (scan.phase = "done" /\ scan.trade # NoTrade) =>
        Here \in {C28_TradeThenScan, C28_ScanThenTrade}

\* C29: the writer calling UpdateMarkPrice and the reader calling
\* GetMarginRatio and IsLiquidatable both always run to completion: the
\* program does not abort, and the two never wait for each other on the
\* position's lock (the reader inside IsLiquidatable for its second RLock,
\* the writer for the reader to leave)
C29_BothRunToCompletion ==
    /\ ~th.aborted
    /\ ~(th.rpc = "liquidatable" /\ th.writer = "waiting")

\* C30: on a Normal position with size > 0, after every public operation,
\* maintenanceMargin = positionValue * rate(tier(positionValue)) with
\* positionValue = markPrice * size, the current notional
C30_MaintenanceMarginFollowsNotional ==
    (pos.Status = PositionNormal /\ DGreaterThan(pos.Size, Zero)) =>
        DEqual(pos.MaintenanceMargin,
               calculateMaintenanceMargin(DMul(pos.MarkPrice, pos.Size)))

\* C31: after every public operation on a Position, unrealizedPnL = (markPrice
\* - entryPrice) * size for LONG and (entryPrice - markPrice) * size for
\* SHORT, with the position's current size, entryPrice and markPrice
C31_UnrealizedPnLIsCurrent ==
    DEqual(pos.UnrealizedPnL,
           IF pos.Side = LONG
           THEN DMul(DSub(pos.MarkPrice, pos.EntryPrice), pos.Size)
           ELSE DMul(DSub(pos.EntryPrice, pos.MarkPrice), pos.Size))

\* C32: UpdateMarkPrice(mark) changes only markPrice and unrealizedPnL: in
\* every position state and for every mark price it leaves every other
\* field, entryPrice, size, side, leverage, initialMargin, maintenanceMargin,
\* liquidationPrice and realizedPnL among them, as it was
C32_UpdateMarkPriceFrame ==
    \A markPrice \in PosPrices :
        [UpdateMarkPrice(pos, markPrice) EXCEPT !.MarkPrice = pos.MarkPrice,
                                                !.UnrealizedPnL = pos.UnrealizedPnL] = pos

\* an open position that has been marked at a price away from its entry
\* price, with margins and a realized PnL to keep
C32_Witness ==
    /\ pos.Status = PositionNormal
    /\ DGreaterThan(pos.Size, Zero)
    /\ ~DIsZero(pos.UnrealizedPnL)
    /\ ~DEqual(pos.MarkPrice, pos.EntryPrice)
    /\ ~DIsZero(pos.RealizedPnL)
    /\ DGreaterThan(pos.MaintenanceMargin, Zero)

\* the call returned an error
C33_Failed(r) == r.err \notin {"nil", "panic"}

\* C33: every Position operation that fails, Open on an open or non-Normal
\* position, Add or Reduce on a non-Normal position, Reduce by more than the
\* size, leaves all fields of the Position unchanged
C33_FailureChangesNothing ==
    /\ \A side \in PositionSides, price \in PosPrices, size \in TradeSizes, leverage \in Leverages :
           C33_Failed(Open(pos, side, price, size, leverage)) =>
               Open(pos, side, price, size, leverage).p = pos
    /\ \A price \in PosPrices, size \in TradeSizes :
           /\ C33_Failed(Add(pos, price, size)) => Add(pos, price, size).p = pos
           /\ C33_Failed(Reduce(pos, price, size)) => Reduce(pos, price, size).p = pos

\* an open position with a realized PnL on which Open fails and a Reduce
\* by more than its size fails
C33_Witness ==
    /\ pos.Status = PositionNormal
    /\ DGreaterThan(pos.Size, Zero)
    /\ ~DIsZero(pos.RealizedPnL)
    /\ \E side \in PositionSides, price \in PosPrices, size \in TradeSizes, leverage \in Leverages :
           C33_Failed(Open(pos, side, price, size, leverage))
    /\ \E price \in PosPrices, size \in TradeSizes : C33_Failed(Reduce(pos, price, size))

\* the liquidation price of the formula, from the position's current
\* entryPrice, margins and size
C34_FormulaPrice(p) ==
    IF p.Side = LONG
    THEN DSub(p.EntryPrice, DDiv(DSub(p.InitialMargin, p.MaintenanceMargin), p.Size))
    ELSE DAdd(p.EntryPrice, DDiv(DSub(p.InitialMargin, p.MaintenanceMargin), p.Size))

\* the call succeeded and left an open position whose stored liquidation
\* price is the formula's
C34_Derived(r) ==
    (r.err = "nil" /\ ~DIsZero(r.p.Size)) =>
        DEqual(r.p.LiquidationPrice, C34_FormulaPrice(r.p))

\* C34: after every successful Open, Add and partial Reduce the stored
\* liquidationPrice equals entryPrice - (initialMargin - maintenanceMargin) /
\* size for LONG and entryPrice + (initialMargin - maintenanceMargin) / size
\* for SHORT, computed from the current entryPrice, margins and size
C34_LiquidationPriceIsDerived ==
    /\ \A side \in PositionSides, price \in PosPrices, size \in TradeSizes, leverage \in Leverages :
           C34_Derived(Open(pos, side, price, size, leverage))
    /\ \A price \in PosPrices, size \in TradeSizes :
           /\ C34_Derived(Add(pos, price, size))
           /\ C34_Derived(Reduce(pos, price, size))

\* the brackets whose half-open interval [MinValue, MaxValue) holds v
C35_HalfOpenBrackets(v) ==
    {i \in 1..Len(DefaultMarginTiers) :
        /\ ~DGreaterThan(NewFromInt(DefaultMarginTiers[i].MinValue), v)
        /\ DGreaterThan(NewFromInt(DefaultMarginTiers[i].MaxValue), v)}

\* C35: the tier lookup tests half-open intervals [minV, maxV): every
\* notional >= 0 falls in exactly one bracket, and a notional equal to a
\* bracket's upper bound gets the rate of the next bracket, both in
\* Position's maintenance-margin lookup and in
\* MarginSystem.CalculateMaintenanceMargin over the same brackets.  The
\* notional is that of the open position, an integer, which is its own
\* float64.
C35_HalfOpenLookup ==
    (pos.Status = PositionNormal /\ DGreaterThan(pos.Size, Zero)) =>
        LET positionValue == DMul(pos.EntryPrice, pos.Size)
        IN  /\ Cardinality(C35_HalfOpenBrackets(positionValue)) = 1
            /\ \A i \in C35_HalfOpenBrackets(positionValue) :
                   /\ tierRate(positionValue, 1) = DefaultMarginTiers[i].MaintenanceRate
                   /\ tierBracket(DefaultMarginTiers, positionValue, 1) = i

\* g holds mu in either way
C36_Has(g, mu) == Holds(g, "Lock", mu) \/ Holds(g, "RLock", mu)

\* g is inside a Lock or RLock call on mu
C36_Wants(g, mu) == Requests(g, "Lock", mu) \/ Requests(g, "RLock", mu)

\* g cannot get its mutex before o moves: o holds it in a way that excludes
\* g's call, or g wants to read and o's Lock call is pending
C36_WaitsFor(g, o) ==
    /\ g # o
    /\ locks[g].waiting
    /\ LET mu == NextStep(g).mu
       IN  \/ Holds(o, "Lock", mu)
           \/ NextStep(g).call = "Lock" /\ Holds(o, "RLock", mu)
           \/ NextStep(g).call = "RLock" /\ Requests(o, "Lock", mu)

\* C36: locks are acquired only in the order Position Manager -> Symbol
\* Bucket -> Margin Account, the MarginSystem lock before any account lock:
\* no goroutine requests the Position Manager lock while holding a bucket or
\* account lock, nor a bucket lock while holding an account lock, and no
\* cycle of lock waits is reachable under any interleaving of the operations
C36_LockOrder ==
    /\ \A g \in Goroutines :
           /\ C36_Wants(g, "pm") => ~C36_Has(g, "bucket") /\ ~C36_Has(g, "account")
           /\ C36_Wants(g, "bucket") => ~C36_Has(g, "account")
           /\ C36_Wants(g, "ms") => ~C36_Has(g, "account")
    /\ ~\E S \in SUBSET Goroutines :
           /\ S # {}
           /\ \A g \in S : \E o \in S : C36_WaitsFor(g, o)

\* OpenPosition holds the manager's lock and waits for the bucket's, which
\* an UpdateMarkPrices holds
C36_Witness ==
    \E g, o \in Goroutines :
        /\ locks[g].op = "OpenPosition/Open"
        /\ Holds(g, "Lock", "pm")
        /\ Requests(g, "Lock", "bucket")
        /\ locks[o].op = "UpdateMarkPrices"
        /\ C36_WaitsFor(g, o)

\* C37: every read and write of the Position Manager's byUser map and mode
\* map, those of ClosePosition, ReducePosition and GetUserPositions included,
\* happens while the manager's read/write lock is held, so no access of the
\* maps is under way while another goroutine is writing them
C37_MapsGuarded ==
    /\ \A g \in Goroutines :
           /\ NextStep(g).call = "read" =>
                  Holds(g, "Lock", "pm") \/ Holds(g, "RLock", "pm")
           /\ NextStep(g).call = "write" => Holds(g, "Lock", "pm")
    /\ \A g, o \in Goroutines :
           (g # o /\ NextStep(o).call = "write") => NextStep(g).mu # "maps"

\* C38: funds backing open positions or resting orders cannot be withdrawn:
\* in every state the operations of the MarginSystem and of the position
\* manager reach, a Withdraw(amount) succeeds only if amount <= balance -
\* positionMargin - orderMargin, and right after it balance >=
\* positionMargin + orderMargin
C38_WithdrawLeavesBacking ==
    \A userID \in DOMAIN accounts, amount \in SystemAmounts :
        LET a == accounts[userID]
            r == MarginSystem_Withdraw(accounts, userID, NewFromInt(amount))
        IN  r.err = "nil" =>
                /\ DLessThanOrEqual(NewFromInt(amount),
                                    DSub(DSub(a.Balance, a.PositionMargin), a.OrderMargin))
                /\ DLessThanOrEqual(DAdd(r.accounts[userID].PositionMargin,
                                         r.accounts[userID].OrderMargin),
                                    r.accounts[userID].Balance)

\* C39: what the code does about the liquidation set.  No UpdateMarkPrices
\* call, run alone or with a trade landing inside its scan, puts a position
\* on its liquidation list: no step of the program makes a position
\* Liquidating.
C39_NothingReturned ==
    /\ scan.liquidateList = <<>>
    /\ \A id \in DOMAIN heap : heap[id].Status # PositionLiquidating

\* the call failed with the error of a position that is not Normal and left
\* the position as it was
C40_FailsNotNormal(r, p) ==
    /\ r.err \in {"add position failed, position status is not normal",
                  "reduce position failed, position status is not normal"}
    /\ r.p = p

\* every Position operation fails so on the position p
C40_Refuses(p) ==
    /\ \A side \in PositionSides, price \in PosPrices, size \in TradeSizes, leverage \in Leverages :
           C40_FailsNotNormal(Open(p, side, price, size, leverage), p)
    /\ \A price \in PosPrices, size \in TradeSizes :
           /\ C40_FailsNotNormal(Add(p, price, size), p)
           /\ C40_FailsNotNormal(Reduce(p, price, size), p)
    /\ \A price \in PosPrices : C40_FailsNotNormal(Close(p, price), p)

\* a step leaves every Liquidating position as it is and in its user's slot
C40_Stays ==
    \A userID \in DOMAIN userPositions :
        \A positionKey \in DOMAIN userPositions[userID] :
            LET id == userPositions[userID][positionKey]
            IN  heap[id].Status = PositionLiquidating =>
                    /\ heap'[id] = heap[id]
                    /\ userID \in DOMAIN userPositions'
                    /\ positionKey \in DOMAIN userPositions'[userID]
                    /\ userPositions'[userID][positionKey] = id

\* C40: under the Position's and Position Manager's public operations
\* Liquidating is absorbing: Open, Add, Reduce and Close (and OpenPosition,
\* ReducePosition, ClosePosition routed to it) on a Liquidating position all
\* fail with NotNormal and leave it unchanged, so no sequence of these
\* operations moves it to Closed or back to Normal, and the user's slot at
\* that key stays occupied by it
C40_LiquidatingIsAbsorbing ==
    /\ [](\A id \in DOMAIN heap :
              heap[id].Status = PositionLiquidating => C40_Refuses(heap[id]))
    /\ [][C40_Stays]_vars

====
